---- MODULE Spec2Model ----
(***************************************************************************)
(* fs-hunter: the scanning pipeline (scanner.py), the dedup filter         *)
(* (filters.py), the metadata record (metadata.py), the kernel-assisted    *)
(* discovery command (scanner.py) and the join diff (compare.py).          *)
(*                                                                         *)
(* Three specifications share the variables:                               *)
(*   Spec        one invocation of scan_directories / process_file_list,   *)
(*               with the executor's worker threads and the consumer       *)
(*   SpecCalls   one call of one function on small arguments: find's       *)
(*               predicates next to the filters of filters.py,             *)
(*               compute_comparison, delta, write_metrics, the parsers,    *)
(*               name_to_pattern, the record of one path, _enrich_batch    *)
(*   SpecUnique  the run with several workers and filter_unique, its       *)
(*               check and its insertion into seen as two steps            *)
(***************************************************************************)
EXTENDS Integers, Sequences, FiniteSets, Bags, TLC

\* ---------------------------------------------------------------- bounds
MaxFiles == 3       \* files on disk (candidates find can print / listed files)
MaxWorkers == 2     \* the largest --workers value tried
MaxFaults == 1      \* files with a failing syscall or rejected by a filter, plus targets given in relative form
MaxSize == 2        \* file sizes and size limits range over 0..MaxSize
MaxTime == 2        \* mtimes and date limits range over 0..MaxTime
MaxRows == 2        \* rows of the two inventories handed to compute_comparison, together
MaxTokens == 3      \* pieces of one duration string
MaxChunks == 2      \* pieces of one file name handed to name_to_pattern
MaxCandidates == 7  \* the longest candidate list sliced into batches on its own
MaxPool == 4        \* the largest workers value such a list is sliced for
MaxDelta == 3700    \* mtime deltas range over -MaxDelta..MaxDelta seconds, and a few larger ones

None == "None"      \* Python's None
NaN == "NaN"        \* the float nan pandas stores for a missing cell

VARIABLES
    cfg,        \* the parameters of the invocation (main.py scan)
    fs,         \* the files on disk and what each syscall on them returns
    pc,         \* where the generator is: find, enrich, done, raising/raised, closing/closed
    findState,  \* per target: the state of its _run_find call
    all_found,  \* scan_directories.all_found / process_file_list.paths
    batches,    \* the slices handed to the workers
    fut,        \* per batch: queued, running, done (the executor's futures)
    consumed,   \* batches whose future the generator has drained
    cur,        \* the results being drained: what is left of the list future.result() returned
    todo,       \* process_file_list with one worker: the paths not yet visited
    seen,       \* filter_unique's closure variable
    emitted,    \* the records yielded so far, in order
    hashed,     \* files compute_hash was called on
    atYield,    \* the generator is suspended at a yield
    error,      \* the exception that left the generator, or "none"
    lateStarts, \* batches a worker started after the generator was closed
    filterLog,  \* what filter_unique returned for each record offered to it
    fq,         \* SpecCalls: one file and the limits given to find
    cmp,        \* SpecCalls: the two inventories and the comparison rows
    call        \* SpecCalls, SpecUnique: one call of a function, its arguments and its result

vars == <<cfg, fs, pc, findState, all_found, batches, fut, consumed, cur, todo, seen,
          emitted, hashed, atYield, error, lateStarts, filterLog, fq, cmp, call>>

pipeVars == <<cfg, fs, pc, findState, all_found, batches, fut, consumed, cur, todo, seen,
              emitted, hashed, atYield, error, lateStarts, filterLog>>

\* ------------------------------------------------------------ utilities
Range(s) == {s[i] : i \in 1..Len(s)}

Min(a, b) == IF a <= b THEN a ELSE b

RECURSIVE SeqToBag(_)
SeqToBag(s) ==
    IF s = <<>> THEN EmptyBag ELSE SetToBag({Head(s)}) (+) SeqToBag(Tail(s))

\* "except clause": Python's exception classes, as far as the except clauses
\* tell them apart
Caught(exc, clause) ==
    LET Subclasses(cls) ==
            CASE cls = "OSError" -> {"OSError", "PermissionError", "FileNotFoundError"}
              [] OTHER -> {cls}
    IN  \E c \in clause : exc \in Subclasses(c)

\* ------------------------------------------------------- the invocation
\* targets, in the order given on the command line
Targets == <<"t1", "t2">>

TargetSet == Range(Targets)

Files == 1..MaxFiles

\* the root a file lives under: find prints a file under the target it was given
TargetOf(f) == Targets[((f - 1) % Len(Targets)) + 1]

\* (name, content) of the files on disk, file by file; characters are one-letter
\* strings.  Files 1 and 2 lie under different targets, have equal contents and
\* names of one pattern
FileKinds == <<
    [name |-> <<"a", "1">>, content |-> "c1"],
    [name |-> <<"a", "2">>, content |-> "c1"],
    [name |-> <<"b", "1">>, content |-> "c2"] >>

KindOf(f) == FileKinds[((f - 1) % Len(FileKinds)) + 1]

\* what goes wrong for a file, if anything: each value is one outcome of one
\* step of _enrich_batch / _enrich_file on that file
Fates == {"ok", "pp_reject", "stat_err", "tod_reject", "owner_oserror",
          "owner_keyerror", "mime_oserror", "hash_err"}

\* main.py: enable_hash = os.getenv("ENABLE_HASH", "true").lower() not in
\* ("false", "0", "no"); str.lower() on the letters that occur
enable_hash(v) ==
    LET LowerChar(c) ==
            CASE c = "N" -> "n" [] c = "O" -> "o" [] c = "F" -> "f" [] c = "A" -> "a"
              [] c = "L" -> "l" [] c = "S" -> "s" [] c = "E" -> "e" [] c = "T" -> "t"
              [] c = "R" -> "r" [] c = "U" -> "u" [] OTHER -> c
        lower == [i \in 1..Len(v) |-> LowerChar(v[i])]
    IN  lower \notin { <<"f", "a", "l", "s", "e">>, <<"0">>, <<"n", "o">> }

\* a variant that forgets --off-hash
need_hash_ignores_off(off_hash, env) == enable_hash(env)

\* main.py: need_hash = (not off_hash) and enable_hash
need_hash(off_hash, env) == (~off_hash) /\ enable_hash(env)

NeedHash == need_hash(cfg.off_hash, cfg.ENABLE_HASH)

\* ------------------------------------------------------ name_to_pattern
Digits == {"0", "1", "2", "3", "4", "5", "6", "7", "8", "9"}

\* int() of a run of digits
RECURSIVE IntOf(_)
IntOf(ds) ==
    LET DigitVal(c) ==
            CASE c = "0" -> 0 [] c = "1" -> 1 [] c = "2" -> 2 [] c = "3" -> 3
              [] c = "4" -> 4 [] c = "5" -> 5 [] c = "6" -> 6 [] c = "7" -> 7
              [] c = "8" -> 8 [] c = "9" -> 9
    IN  IF ds = <<>> THEN 0
        ELSE IntOf(SubSeq(ds, 1, Len(ds) - 1)) * 10 + DigitVal(ds[Len(ds)])

\* utils.py _is_valid_date
_is_valid_date(ds) ==
    /\ Len(ds) = 8
    /\ LET y == IntOf(SubSeq(ds, 1, 4))
           m == IntOf(SubSeq(ds, 5, 6))
           d == IntOf(SubSeq(ds, 7, 8))
       IN  1900 <= y /\ y <= 2099 /\ 1 <= m /\ m <= 12 /\ 1 <= d /\ d <= 31

\* re.escape on one character: ASCII letters, digits and "_" are left alone
EscapeChar(c) ==
    IF c \in {".", "-", "*", "+", "?", "(", ")", "[", "]", "{", "}", "^", "$", "|", " ",
              "\\", "&", "~", "#"}
    THEN "\\" \o c ELSE c

\* length of the run of digits s starts with
RECURSIVE DigitRun(_)
DigitRun(s) ==
    IF s = <<>> \/ Head(s) \notin Digits THEN 0 ELSE 1 + DigitRun(Tail(s))

\* a variant that knows no dates: every digit run becomes \d{N}
RECURSIVE name_to_pattern_no_date(_)
name_to_pattern_no_date(s) ==
    IF s = <<>> THEN ""
    ELSE IF Head(s) \in Digits
         THEN LET n == DigitRun(s)
              IN  "\\d{" \o ToString(n) \o "}"
                      \o name_to_pattern_no_date(SubSeq(s, n + 1, Len(s)))
         ELSE EscapeChar(Head(s)) \o name_to_pattern_no_date(Tail(s))

\* utils.py name_to_pattern: re.split(r"(\d+)", filename), digit runs replaced
RECURSIVE name_to_pattern(_)
name_to_pattern(s) ==
    IF s = <<>> THEN ""
    ELSE IF Head(s) \in Digits
         THEN LET n == DigitRun(s)
                  run == SubSeq(s, 1, n)
                  rest == SubSeq(s, n + 1, Len(s))
              IN  (IF _is_valid_date(run) THEN "\\d{4}\\d{2}\\d{2}"
                   ELSE "\\d{" \o ToString(n) \o "}") \o name_to_pattern(rest)
         ELSE EscapeChar(Head(s)) \o name_to_pattern(Tail(s))

\* ---------------------------------------------------- metadata.py, per file
\* metadata.py _compute_md5: hashlib.md5 of the file's bytes (equal contents,
\* equal digests); a read error gives ""
_compute_md5(f) ==
    IF fs.fate[f] = "hash_err" THEN "" ELSE "md5:" \o KindOf(f).content

\* metadata.py _get_owner: Path.owner() raises OSError (caught here) or, for a
\* uid the password database does not know, KeyError (caught nowhere)
_get_owner(f) ==
    CASE fs.fate[f] = "owner_oserror" -> [exc |-> "none", val |-> "N/A"]
      [] fs.fate[f] = "owner_keyerror" -> [exc |-> "KeyError", val |-> ""]
      [] OTHER -> [exc |-> "none", val |-> "user"]

\* metadata.py _detect_mime: magic failing falls back to mimetypes, then "unknown"
_detect_mime(f) ==
    IF fs.fate[f] = "mime_oserror" THEN "unknown" ELSE "application/octet-stream"

\* Path.stat() in _enrich_batch / _enrich_file
Stat(f) == IF fs.fate[f] = "stat_err" THEN "PermissionError" ELSE "none"

\* metadata.py extract_metadata_stat: owner, mime_type and md5 start empty.
\* file_path.relative_to(base_dir): find prints paths that start with the target
\* as it was typed, base_dir is Path(target).resolve(); a target typed in
\* relative form is no prefix of its own resolved path
extract_metadata_stat(f, base) ==
    [exc |-> IF base = "resolved_target" /\ TargetOf(f) \in cfg.relTargets
             THEN "ValueError" ELSE "none",
     rec |-> [id |-> f, name |-> KindOf(f).name, owner |-> "", mime_type |-> "", md5 |-> ""]]

\* metadata.py enrich_metadata: _get_owner, then _detect_mime
enrich_metadata(rec, f) ==
    LET o == _get_owner(f)
    IN  IF o.exc # "none" THEN [exc |-> o.exc, rec |-> rec]
        ELSE [exc |-> "none",
              rec |-> [rec EXCEPT !.owner = o.val, !.mime_type = _detect_mime(f)]]

\* metadata.py FileMetadata.compute_hash
compute_hash(rec, f) == [rec EXCEPT !.md5 = _compute_md5(f)]

\* ------------------------------------------------- scanner.py, per file
\* filters.py filter_by_time_range's verdict on the file's mtime
time_filter(f) == fs.fate[f] # "tod_reject"

Skip == [out |-> "skip", exc |-> "none"]

Raise(e) == [out |-> "raise", exc |-> e]

\* scanner.py _enrich_batch, the body of the loop for one candidate; a file
\* with fate pp_reject is one the path pattern rejects (relative_to failing
\* falls back to the file name there)
EnrichOne(f) ==
    IF fs.fate[f] = "pp_reject" THEN Skip
    ELSE LET st == Stat(f)
             md == extract_metadata_stat(f, "resolved_target")
             statExc == IF st # "none" THEN st ELSE md.exc
         IN  IF statExc # "none"
             THEN (IF Caught(statExc, {"PermissionError", "OSError"})
                   THEN Skip ELSE Raise(statExc))
             ELSE IF ~time_filter(f) THEN Skip
             ELSE LET en == enrich_metadata(md.rec, f)
                      rec == IF en.exc # "none" /\ Caught(en.exc, {"PermissionError", "OSError"})
                             THEN md.rec ELSE en.rec
                  IN  IF en.exc # "none" /\ ~Caught(en.exc, {"PermissionError", "OSError"})
                      THEN Raise(en.exc)
                      ELSE [out |-> "append", exc |-> "none", hash |-> NeedHash,
                            rec |-> IF NeedHash THEN compute_hash(rec, f) ELSE rec]

\* scanner.py _enrich_file: the whole body is one try, base_dir is the parent
_enrich_file(f) ==
    LET st == Stat(f)
        md == extract_metadata_stat(f, "parent")
        en == enrich_metadata(md.rec, f)
        exc == IF st # "none" THEN st
               ELSE IF md.exc # "none" THEN md.exc ELSE en.exc
    IN  IF exc # "none"
        THEN (IF Caught(exc, {"PermissionError", "OSError"}) THEN Skip ELSE Raise(exc))
        ELSE [out |-> "append", exc |-> "none", hash |-> NeedHash,
              rec |-> IF NeedHash THEN compute_hash(en.rec, f) ELSE en.rec]

PerFile(f) == IF cfg.mode = "files" THEN _enrich_file(f) ELSE EnrichOne(f)

\* scanner.py _enrich_batch / _enrich_file_batch: the candidates in order; an
\* exception that no except clause catches ends the batch and is the future's
\* exception.  results: the list returned; hashed: files compute_hash ran on
RECURSIVE EnrichFrom(_, _, _)
EnrichFrom(batch, results, hashedSoFar) ==
    IF batch = <<>> THEN [exc |-> "none", results |-> results, hashed |-> hashedSoFar]
    ELSE LET r == PerFile(Head(batch))
         IN  CASE r.out = "raise" ->
                    [exc |-> r.exc, results |-> <<>>, hashed |-> hashedSoFar]
               [] r.out = "skip" -> EnrichFrom(Tail(batch), results, hashedSoFar)
               [] OTHER ->
                    EnrichFrom(Tail(batch), Append(results, r.rec),
                               IF r.hash THEN hashedSoFar \cup {Head(batch)}
                               ELSE hashedSoFar)

\* a variant that walks the batch from its last candidate to its first
_enrich_batch_backwards(batch) ==
    EnrichFrom([i \in 1..Len(batch) |-> batch[Len(batch) + 1 - i]], <<>>, {})

_enrich_batch(batch) == EnrichFrom(batch, <<>>, {})

\* ------------------------------------------------ filters.py filter_unique
\* filter_unique.check, lines 95-98: the key of the record.  m.sha256 is
\* getattr(m, "sha256"): a dataclass instance has the declared fields and no
\* others
key_of(base, m) ==
    IF base = "hash"
    THEN (IF "sha256" \in DOMAIN m THEN [exc |-> "none", val |-> m["sha256"]]
          ELSE [exc |-> "AttributeError", val |-> ""])
    ELSE [exc |-> "none", val |-> name_to_pattern(m.name)]

\* a variant of seen.add(key) that forgets the key
seen_add_nothing(seenSet, key) == seenSet

\* filter_unique.check, line 101: seen.add(key)
seen_add(seenSet, key) == seenSet \cup {key}

\* filter_unique.check: the key, then "if not key or key in seen: return False"
\* keep: the value returned; seen: the closure's set afterwards
check(base, m, seenSet) ==
    LET k == key_of(base, m)
    IN  IF k.exc # "none" THEN [exc |-> k.exc, keep |-> FALSE, seen |-> seenSet]
        ELSE IF k.val = "" \/ k.val \in seenSet
             THEN [exc |-> "none", keep |-> FALSE, seen |-> seenSet]
             ELSE [exc |-> "none", keep |-> TRUE, seen |-> seen_add(seenSet, k.val)]

\* --------------------------------------------------- scanner.py, batching
RECURSIVE Slices(_, _)
Slices(list, size) ==
    IF list = <<>> THEN <<>>
    ELSE <<SubSeq(list, 1, Min(size, Len(list)))>>
         \o Slices(SubSeq(list, Min(size, Len(list)) + 1, Len(list)), size)

\* a variant that makes one slice for each worker and leaves the rest out
MakeBatchesNoRemainder(list, workers) ==
    IF workers <= 1 THEN <<list>>
    ELSE LET size == IF Len(list) \div workers >= 1 THEN Len(list) \div workers ELSE 1
         IN  Slices(SubSeq(list, 1, Min(Len(list), size * workers)), size)

\* scanner.py 257-265 and 384-391: one batch, or slices of max(1, n // workers)
MakeBatches(list, workers) ==
    IF workers <= 1 THEN <<list>>
    ELSE Slices(list, IF Len(list) \div workers >= 1 THEN Len(list) \div workers ELSE 1)

\* ---------------------------------------------------- scanner.py _run_find
FindOutcomes == {"ok", "TimeoutExpired", "FileNotFoundError", "OSError"}

\* what find prints for a target: its files, in directory order
FindOutput(t) ==
    LET RECURSIVE Under(_)
        Under(f) == IF f > MaxFiles THEN <<>>
                    ELSE (IF TargetOf(f) = t THEN <<f>> ELSE <<>>) \o Under(f + 1)
    IN  Under(1)

\* a variant whose except clause forgets FileNotFoundError (and with it OSError)
_run_find_timeout_only(t, outcome) ==
    IF outcome = "ok" THEN [exc |-> "none", paths |-> FindOutput(t)]
    ELSE IF Caught(outcome, {"TimeoutExpired"})
         THEN [exc |-> "none", paths |-> <<>>]
         ELSE [exc |-> outcome, paths |-> <<>>]

\* _run_find: subprocess.run under "except (TimeoutExpired, FileNotFoundError,
\* OSError)": a failure is logged and the target gives no path
_run_find(t, outcome) ==
    IF outcome = "ok" THEN [exc |-> "none", paths |-> FindOutput(t)]
    ELSE IF Caught(outcome, {"TimeoutExpired", "FileNotFoundError", "OSError"})
         THEN [exc |-> "none", paths |-> <<>>]
         ELSE [exc |-> outcome, paths |-> <<>>]

\* ------------------------------------------------------------ the pipeline
Serial == cfg.workers <= 1

Idle == [phase |-> "idle"]

InitPipe ==
    /\ cfg \in [mode : {"dirs", "files"}, relTargets : SUBSET TargetSet,
                unique : {None, "hash", "namepattern"}, off_hash : BOOLEAN,
                ENABLE_HASH : { <<"t", "r", "u", "e">>, <<"N", "o">> },
                workers : 1..MaxWorkers]
    /\ cfg.mode = "files" => cfg.relTargets = {}
    /\ fs \in [fate : [Files -> Fates]]
    \* process_file_list applies no path pattern and no time-of-day filter
    /\ cfg.mode = "files" =>
           \A f \in Files : fs.fate[f] \notin {"pp_reject", "tod_reject"}
    /\ Cardinality({f \in Files : fs.fate[f] # "ok"}) + Cardinality(cfg.relTargets)
           <= MaxFaults
    /\ pc = IF cfg.mode = "dirs" THEN "find" ELSE "list"
    /\ findState = [t \in TargetSet |-> "pending"]
    /\ all_found = <<>>
    /\ batches = <<>>
    /\ fut = <<>>
    /\ consumed = {}
    /\ cur = <<>>
    /\ todo = <<>>
    /\ seen = {}
    /\ emitted = <<>>
    /\ hashed = {}
    /\ atYield = FALSE
    /\ error = "none"
    /\ lateStarts = {}
    /\ filterLog = <<>>

Init == InitPipe /\ fq = Idle /\ cmp = Idle /\ call = Idle

\* ---- phase 1 (scanner.py 231-250)
SerialFind == Serial \/ Len(Targets) = 1

\* a variant that takes a find that was started for one that has returned
CollectedOrStarted(st) == st # "pending"

Collected(st) == st \in {"ok", "failed"}

\* the serial loop: all_found.extend(_run_find(target, ...)), target by target
FindSerial(t) ==
    /\ pc = "find" /\ SerialFind
    /\ findState[t] = "pending"
    /\ \A i \in 1..Len(Targets) :
          Targets[i] = t => \A j \in 1..(i - 1) : Collected(findState[Targets[j]])
    /\ \E outcome \in FindOutcomes :
          LET r == _run_find(t, outcome)
          IN  IF r.exc # "none"
              THEN /\ pc' = "raised" /\ error' = "FindError"
                   /\ UNCHANGED <<findState, all_found>>
              ELSE /\ findState' = [findState EXCEPT ![t] =
                                        IF outcome = "ok" THEN "ok" ELSE "failed"]
                   /\ all_found' = all_found \o r.paths
                   /\ UNCHANGED <<pc, error>>
    /\ UNCHANGED <<cfg, fs, batches, fut, consumed, cur, todo, seen, emitted, hashed,
                   atYield, lateStarts, filterLog, fq, cmp, call>>

FindRunning == {t \in TargetSet : findState[t] = "running"}

\* a variant with one pool thread for every submitted call
max_workers_per_call(phase) ==
    IF phase = "find" THEN Len(Targets) ELSE Len(batches)

\* the size of the thread pool: ThreadPoolExecutor(max_workers=min(workers,
\* len(targets))) around the finds, ThreadPoolExecutor(max_workers=workers)
\* around the batches
max_workers(phase) ==
    IF phase = "find" THEN Min(cfg.workers, Len(Targets)) ELSE cfg.workers

\* ThreadPoolExecutor(max_workers=min(workers, len(targets))): the submitted
\* calls start in submission order, as threads are free
FindStart(t) ==
    /\ pc = "find" /\ ~SerialFind
    /\ findState[t] = "pending"
    /\ \A i \in 1..Len(Targets) :
          Targets[i] = t => \A j \in 1..(i - 1) : findState[Targets[j]] # "pending"
    /\ Cardinality(FindRunning) < max_workers("find")
    /\ findState' = [findState EXCEPT ![t] = "running"]
    /\ UNCHANGED <<cfg, fs, pc, all_found, batches, fut, consumed, cur, todo, seen,
                   emitted, hashed, atYield, error, lateStarts, filterLog, fq, cmp, call>>

\* a worker's _run_find returns: the future is done
FindFinish(t) ==
    /\ pc = "find" /\ ~SerialFind
    /\ findState[t] = "running"
    /\ \E outcome \in FindOutcomes :
          findState' = [findState EXCEPT ![t] =
              IF _run_find(t, outcome).exc # "none" THEN "done_raised"
              ELSE IF outcome = "ok" THEN "done_ok" ELSE "done_failed"]
    /\ UNCHANGED <<cfg, fs, pc, all_found, batches, fut, consumed, cur, todo, seen,
                   emitted, hashed, atYield, error, lateStarts, filterLog, fq, cmp, call>>

\* for future in as_completed(futures): all_found.extend(future.result())
FindCollect(t) ==
    /\ pc = "find" /\ ~SerialFind
    /\ findState[t] \in {"done_ok", "done_failed", "done_raised"}
    /\ IF findState[t] = "done_raised"
       THEN /\ pc' = "raised" /\ error' = "FindError"
            /\ UNCHANGED <<findState, all_found>>
       ELSE /\ findState' = [findState EXCEPT ![t] =
                                 IF findState[t] = "done_ok" THEN "ok" ELSE "failed"]
            /\ all_found' = all_found \o
                   (IF findState[t] = "done_ok" THEN _run_find(t, "ok").paths ELSE <<>>)
            /\ UNCHANGED <<pc, error>>
    /\ UNCHANGED <<cfg, fs, batches, fut, consumed, cur, todo, seen, emitted, hashed,
                   atYield, lateStarts, filterLog, fq, cmp, call>>

\* ---- phase 2 (scanner.py 254-340, 382-454)
BatchIds == 1..Len(batches)

Running == {b \in BatchIds : fut[b] = "running"}

Queued == {b \in BatchIds : fut[b] = "queued"}

\* scan_directories after phase 1: nothing found ends the generator; otherwise
\* the batches are built and, with workers > 1, all submitted to the executor
StartEnrich ==
    /\ pc = "find"
    /\ \A t \in TargetSet : Collected(findState[t])
    /\ IF all_found = <<>>
       THEN /\ pc' = "done"
            /\ UNCHANGED <<batches, fut>>
       ELSE /\ pc' = "enrich"
            /\ batches' = MakeBatches(all_found, cfg.workers)
            /\ fut' = [b \in 1..Len(MakeBatches(all_found, cfg.workers)) |-> "queued"]
    /\ UNCHANGED <<cfg, fs, findState, all_found, consumed, cur, todo, seen, emitted,
                   hashed, atYield, error, lateStarts, filterLog, fq, cmp, call>>

\* process_file_list: paths, then the batches; with one worker the generator
\* walks the paths itself
StartFileList ==
    /\ pc = "list"
    /\ pc' = "enrich"
    /\ all_found' = [i \in 1..MaxFiles |-> i]
    /\ batches' = MakeBatches(all_found', cfg.workers)
    /\ fut' = [b \in 1..Len(batches') |-> IF Serial THEN "inline" ELSE "queued"]
    /\ todo' = IF Serial THEN all_found' ELSE <<>>
    /\ UNCHANGED <<cfg, fs, findState, consumed, cur, seen, emitted, hashed, atYield,
                   error, lateStarts, filterLog, fq, cmp, call>>

\* a pool thread takes the next work item off the executor's FIFO queue; the
\* queue is served until it is empty, also after shutdown(wait=True)
WorkerStart(b) ==
    /\ pc \in {"enrich", "raising", "closing"} /\ ~Serial
    /\ b \in Queued /\ \A c \in Queued : b <= c
    /\ Cardinality(Running) < max_workers("enrich")
    /\ fut' = [fut EXCEPT ![b] = "running"]
    /\ lateStarts' = IF pc = "closing" THEN lateStarts \cup {b} ELSE lateStarts
    /\ UNCHANGED <<cfg, fs, pc, findState, all_found, batches, consumed, cur, todo,
                   seen, emitted, hashed, atYield, error, filterLog, fq, cmp, call>>

\* the thread's _enrich_batch / _enrich_file_batch call returns or raises
WorkerFinish(b) ==
    /\ pc \in {"enrich", "raising", "closing"} /\ ~Serial
    /\ b \in Running
    /\ fut' = [fut EXCEPT ![b] = "done"]
    /\ hashed' = hashed \cup _enrich_batch(batches[b]).hashed
    /\ UNCHANGED <<cfg, fs, pc, findState, all_found, batches, consumed, cur, todo,
                   seen, emitted, atYield, error, lateStarts, filterLog, fq, cmp, call>>

\* scan_directories with one worker: for metadata in _enrich_batch(all_found, ...)
EnrichSerial ==
    /\ pc = "enrich" /\ Serial /\ cfg.mode = "dirs"
    /\ fut[1] = "queued"
    /\ LET r == _enrich_batch(batches[1])
       IN  /\ hashed' = hashed \cup r.hashed
           /\ fut' = [fut EXCEPT ![1] = "done"]
           /\ IF r.exc # "none"
              THEN /\ pc' = "raised" /\ error' = r.exc
                   /\ UNCHANGED <<cur, consumed>>
              ELSE /\ cur' = r.results /\ consumed' = {1}
                   /\ UNCHANGED <<pc, error>>
    /\ atYield' = FALSE
    /\ UNCHANGED <<cfg, fs, findState, all_found, batches, todo, seen, emitted,
                   lateStarts, filterLog, fq, cmp, call>>

\* process_file_list with one worker: metadata = _enrich_file(fp, need_hash)
FileSerial ==
    /\ pc = "enrich" /\ Serial /\ cfg.mode = "files"
    /\ cur = <<>> /\ todo # <<>>
    /\ LET r == _enrich_file(Head(todo))
       IN  /\ todo' = Tail(todo)
           /\ CASE r.out = "raise" ->
                     /\ pc' = "raised" /\ error' = r.exc
                     /\ UNCHANGED <<cur, hashed>>
                [] r.out = "skip" -> UNCHANGED <<pc, error, cur, hashed>>
                [] OTHER ->
                     /\ cur' = <<r.rec>>
                     /\ hashed' = IF r.hash THEN hashed \cup {Head(todo)} ELSE hashed
                     /\ UNCHANGED <<pc, error>>
    /\ atYield' = FALSE
    /\ UNCHANGED <<cfg, fs, findState, all_found, batches, fut, consumed, seen,
                   emitted, lateStarts, filterLog, fq, cmp, call>>

\* for future in as_completed(futures): for metadata in future.result(): ...
\* future.result() re-raises what the batch raised; the exception leaves the
\* "with ThreadPoolExecutor" block, whose exit is shutdown(wait=True)
TakeFuture(b) ==
    /\ pc = "enrich" /\ ~Serial
    /\ cur = <<>>
    /\ b \in BatchIds \ consumed /\ fut[b] = "done"
    /\ LET r == _enrich_batch(batches[b])
       IN  IF r.exc # "none"
           THEN /\ pc' = "raising" /\ error' = r.exc
                /\ UNCHANGED <<cur, consumed>>
           ELSE /\ cur' = r.results /\ consumed' = consumed \cup {b}
                /\ UNCHANGED <<pc, error>>
    /\ atYield' = FALSE
    /\ UNCHANGED <<cfg, fs, findState, all_found, batches, fut, todo, seen, emitted,
                   hashed, lateStarts, filterLog, fq, cmp, call>>

\* if unique_filter and not unique_filter(metadata): continue / yield metadata
Offer ==
    /\ pc = "enrich" /\ cur # <<>>
    /\ LET m == Head(cur)
           r == IF cfg.unique = None
                THEN [exc |-> "none", keep |-> TRUE, seen |-> seen]
                ELSE check(cfg.unique, m, seen)
       IN  /\ filterLog' = IF cfg.unique = None THEN filterLog
                           ELSE Append(filterLog,
                                  [id |-> m.id, md5 |-> m.md5,
                                   result |-> IF r.exc # "none" THEN "raised"
                                              ELSE IF r.keep THEN "kept" ELSE "dropped"])
           /\ seen' = r.seen
           /\ IF r.exc # "none"
              THEN /\ pc' = IF Serial THEN "raised" ELSE "raising"
                   /\ error' = r.exc
                   /\ UNCHANGED <<cur, emitted, atYield>>
              ELSE /\ cur' = Tail(cur)
                   /\ emitted' = IF r.keep THEN Append(emitted, m) ELSE emitted
                   /\ atYield' = r.keep
                   /\ UNCHANGED <<pc, error>>
    /\ UNCHANGED <<cfg, fs, findState, all_found, batches, fut, consumed, todo, hashed,
                   lateStarts, fq, cmp, call>>

\* the loops are exhausted: the generator returns
Finish ==
    /\ pc = "enrich" /\ cur = <<>> /\ todo = <<>>
    /\ \A b \in BatchIds : b \in consumed \/ fut[b] = "inline"
    /\ pc' = "done"
    /\ atYield' = FALSE
    /\ UNCHANGED <<cfg, fs, findState, all_found, batches, fut, consumed, cur, todo,
                   seen, emitted, hashed, error, lateStarts, filterLog, fq, cmp, call>>

\* the consumer closes the generator while it is suspended at a yield:
\* GeneratorExit leaves the "with" block, if there is one
Close ==
    /\ pc = "enrich" /\ atYield
    /\ pc' = IF Serial THEN "closed" ELSE "closing"
    /\ atYield' = FALSE
    /\ UNCHANGED <<cfg, fs, findState, all_found, batches, fut, consumed, cur, todo,
                   seen, emitted, hashed, error, lateStarts, filterLog, fq, cmp, call>>

\* ThreadPoolExecutor.__exit__: shutdown(wait=True) returns once every
\* submitted work item has run; then the exception or the close goes on
ShutdownDone ==
    /\ pc \in {"raising", "closing"}
    /\ \A b \in BatchIds : fut[b] = "done"
    /\ pc' = IF pc = "raising" THEN "raised" ELSE "closed"
    /\ UNCHANGED <<cfg, fs, findState, all_found, batches, fut, consumed, cur, todo,
                   seen, emitted, hashed, atYield, error, lateStarts, filterLog, fq, cmp, call>>

Next ==
    \/ \E t \in TargetSet : FindSerial(t)
    \/ \E t \in TargetSet : FindStart(t)
    \/ \E t \in TargetSet : FindFinish(t)
    \/ \E t \in TargetSet : FindCollect(t)
    \/ StartEnrich
    \/ StartFileList
    \/ \E b \in BatchIds : WorkerStart(b)
    \/ \E b \in BatchIds : WorkerFinish(b)
    \/ EnrichSerial
    \/ FileSerial
    \/ \E b \in BatchIds : TakeFuture(b)
    \/ Offer
    \/ Finish
    \/ Close
    \/ ShutdownDone

Spec == Init /\ [][Next]_vars

\* ------------------------------------- scanner.py _build_find_cmd
\* a limit the caller did not give (Python's None among numbers)
Unset == -1

\* the date and size tests _build_find_cmd appends, as find primaries; a limit
\* is Unset or a number (bytes; an instant in seconds)
_build_find_cmd(lookback, scan_start, scan_end, min_size, max_size) ==
    (IF lookback # Unset THEN << [op |-> "mmin", neg |-> FALSE, arg |-> lookback] >>
     ELSE (IF scan_start # Unset
           THEN << [op |-> "newermt", neg |-> FALSE, arg |-> scan_start] >> ELSE <<>>)
          \o (IF scan_end # Unset
              THEN << [op |-> "newermt", neg |-> TRUE, arg |-> scan_end] >> ELSE <<>>))
    \o (IF min_size # Unset
        THEN << [op |-> "size+", neg |-> FALSE, arg |-> min_size] >> ELSE <<>>)
    \o (IF max_size # Unset
        THEN << [op |-> "size-", neg |-> FALSE, arg |-> max_size] >> ELSE <<>>)

\* find(1): -newermt T is true of a file modified after T, -size +Nc of a file
\* of more than N bytes, -size -Nc of one of less than N bytes, -mmin -N of a
\* file modified less than N minutes ago; "!" negates the primary after it
Primary(p, size, mtime, now) ==
    LET v == CASE p.op = "newermt" -> mtime > p.arg
               [] p.op = "size+" -> size > p.arg
               [] p.op = "size-" -> size < p.arg
               [] p.op = "mmin" -> now - mtime < p.arg
    IN  IF p.neg THEN ~v ELSE v

\* find prints the file iff every primary of the command holds
FindKeeps(cmd, size, mtime, now) ==
    \A i \in 1..Len(cmd) : Primary(cmd[i], size, mtime, now)

\* filters.py filter_by_size_range
filter_by_size_range(min_size, max_size, size) ==
    IF min_size # Unset /\ size < min_size THEN FALSE
    ELSE IF max_size # Unset /\ size > max_size THEN FALSE
    ELSE TRUE

\* filters.py filter_by_date_range
filter_by_date_range(after, before, mtime) ==
    IF after # Unset /\ mtime < after THEN FALSE
    ELSE IF before # Unset /\ mtime > before THEN FALSE
    ELSE TRUE

\* find runs on the one file with the command _build_find_cmd built
RunFindOnFile ==
    /\ fq.phase = "asked"
    /\ LET cmd == _build_find_cmd(fq.lookback, fq.scan_start, fq.scan_end,
                                  fq.min_size, fq.max_size)
       IN  fq' = [fq EXCEPT !.phase = "ran", !.cmd = cmd,
                            !.printed = FindKeeps(cmd, fq.size, fq.mtime, MaxTime)]
    /\ UNCHANGED <<pipeVars, cmp, call>>

\* ------------------------------------ compare.py compute_comparison
Paths == <<"a.parq", "b.parq">>

\* pd.to_datetime of a stamp: the instant, as a day number
to_datetime(stamp) ==
    CASE stamp = "2024-01-01" -> 1
      [] stamp = "2024-01-01 00:00:00" -> 1
      [] stamp = "2024-01-02" -> 2

\* .dt.strftime("%Y-%m-%d %H:%M:%S") of an instant
strftime(instant) ==
    CASE instant = 1 -> "2024-01-01 00:00:00"
      [] instant = 2 -> "2024-01-02 00:00:00"

\* pd.isna
isna(x) == x \in {NaN, None}

\* Python's a != b: a NaN is unequal to everything, itself included
PyNe(a, b) == IF a = NaN \/ b = NaN THEN TRUE ELSE a # b

\* Python's x in tuple: a NaN is equal to no element of the tuple
PyIn(x, tuple) == x # NaN /\ x \in tuple

RowsOf(inventory, path) ==
    SelectSeq(inventory, LAMBDA r : r.relative_path = path)

\* the rows pd.merge(how="outer") gives one key: every pair of a source row
\* and a target row of that key, or the rows of the only side that has it;
\* a side of a merged row is <<>> where its columns are NaN
MergeKey(path, S, T) ==
    IF S = <<>>
    THEN [i \in 1..Len(T) |-> [relative_path |-> path, source |-> <<>>, target |-> <<T[i]>>]]
    ELSE IF T = <<>>
    THEN [i \in 1..Len(S) |-> [relative_path |-> path, source |-> <<S[i]>>, target |-> <<>>]]
    ELSE [i \in 1..(Len(S) * Len(T)) |->
             [relative_path |-> path,
              source |-> <<S[((i - 1) \div Len(T)) + 1]>>,
              target |-> <<T[((i - 1) % Len(T)) + 1]>>]]

RECURSIVE MergeFrom(_, _, _)
MergeFrom(i, source, target) ==
    IF i > Len(Paths) THEN <<>>
    ELSE MergeKey(Paths[i], RowsOf(source, Paths[i]), RowsOf(target, Paths[i]))
             \o MergeFrom(i + 1, source, target)

\* pd.merge(s, t, on="relative_path", how="outer"), keys in sorted order
merge(source, target) == MergeFrom(1, source, target)

_status(row) ==
    IF row.source = <<>> THEN "missing_in_source"
    ELSE IF row.target = <<>> THEN "missing_in_target"
    ELSE LET src == row.source[1]
             tgt == row.target[1]
             size_diff == src.size_bytes # tgt.size_bytes
             md5_diff == /\ PyNe(src.md5, tgt.md5)
                         /\ ~PyIn(src.md5, {None, "", "nan"})
                         /\ ~PyIn(tgt.md5, {None, "", "nan"})
             mtime_diff == to_datetime(src.mtime) # to_datetime(tgt.mtime)
         IN  IF size_diff \/ md5_diff \/ mtime_diff THEN "differ" ELSE "match"

_checksum_status(row) ==
    IF row.source = <<>> \/ row.target = <<>> THEN "N/A"
    ELSE LET s_md5 == row.source[1].md5
             t_md5 == row.target[1].md5
         IN  IF isna(s_md5) \/ isna(t_md5) \/ PyIn(s_md5, {"", None})
                    \/ PyIn(t_md5, {"", None})
             THEN "N/A"
             ELSE IF s_md5 = t_md5 THEN "Match" ELSE "Mismatch"

\* one side's mtime and size columns of the output, missing values filled
SideColumns(side) ==
    IF side = <<>> THEN [mtime |-> "N/A", size |-> 0]
    ELSE [mtime |-> strftime(to_datetime(side[1].mtime)), size |-> side[1].size_bytes]

compute_comparison(source, target) ==
    LET merged == merge(source, target)
    IN  [i \in 1..Len(merged) |->
            [relative_path |-> merged[i].relative_path,
             status |-> _status(merged[i]),
             checksum |-> _checksum_status(merged[i]),
             source_mtime |-> SideColumns(merged[i].source).mtime,
             target_mtime |-> SideColumns(merged[i].target).mtime,
             source_size |-> SideColumns(merged[i].source).size,
             target_size |-> SideColumns(merged[i].target).size]]

Compare ==
    /\ cmp.phase = "loaded"
    /\ cmp' = [cmp EXCEPT !.phase = "compared",
                          !.rows = compute_comparison(cmp.source, cmp.target)]
    /\ UNCHANGED <<pipeVars, fq, call>>

\* ----------------------------------- delta_result_main.py delta
\* df.insert(0, "change", sign) on every row
WithChange(rows, sign) ==
    [i \in 1..Len(rows) |->
        [change |-> sign, full_path |-> rows[i].full_path, size_bytes |-> rows[i].size_bytes]]

\* a variant that tells rows apart by all their columns
delta_by_row(source_df, target_df) ==
    WithChange(SelectSeq(target_df, LAMBDA r : r \notin Range(source_df)), "+")
        \o WithChange(SelectSeq(source_df, LAMBDA r : r \notin Range(target_df)), "-")

\* delta_result_main.py 51-63
delta(source_df, target_df) ==
    LET source_paths == { source_df[i].full_path : i \in 1..Len(source_df) }
        target_paths == { target_df[i].full_path : i \in 1..Len(target_df) }
        added_paths == target_paths \ source_paths
        removed_paths == source_paths \ target_paths
        added_df == WithChange(SelectSeq(target_df, LAMBDA r : r.full_path \in added_paths), "+")
        removed_df == WithChange(SelectSeq(source_df, LAMBDA r : r.full_path \in removed_paths), "-")
    IN  added_df \o removed_df

RunDelta ==
    /\ call.phase = "read" /\ call.fn = "delta"
    /\ call' = [call EXCEPT !.phase = "done", !.out = delta(call.source, call.target)]
    /\ UNCHANGED <<pipeVars, fq, cmp>>

\* -------------------------------------- utils.py write_metrics
\* mod_col.dt.hour * 60 + mod_col.dt.minute
time_of_day(t) == t[1] * 60 + t[2]

\* f"{h:02d}"
TwoDigits(n) == IF n < 10 THEN "0" \o ToString(n) ELSE ToString(n)

\* the bucket write_metrics builds for index i (0-based): label and count
Bucket(i, interval_minutes, df) ==
    LET start_min == i * interval_minutes
        end_min == start_min + interval_minutes
    IN  [interval |-> TwoDigits(start_min \div 60) \o ":" \o TwoDigits(start_min % 60)
                          \o "-" \o TwoDigits(end_min \div 60) \o ":" \o TwoDigits(end_min % 60),
         start_min |-> start_min,
         end_min |-> end_min,
         count |-> Cardinality({r \in 1..Len(df) :
                        time_of_day(df[r]) >= start_min /\ time_of_day(df[r]) < end_min})]

\* the time_buckets entry of metrics.json, or the exception write_metrics raises
write_metrics(df, interval_minutes) ==
    IF interval_minutes = 0 THEN [exc |-> "ZeroDivisionError", buckets |-> <<>>, empty_buckets |-> 0]
    ELSE LET buckets_per_day == (24 * 60) \div interval_minutes
         IN  IF Len(df) > 0
             THEN LET time_buckets == [i \in 1..buckets_per_day |-> Bucket(i - 1, interval_minutes, df)]
                  IN  IF time_buckets = <<>>
                      THEN [exc |-> "ValueError", buckets |-> <<>>, empty_buckets |-> 0]
                      ELSE [exc |-> "none", buckets |-> time_buckets,
                            empty_buckets |-> Cardinality({i \in 1..Len(time_buckets) :
                                                              time_buckets[i].count = 0})]
             ELSE [exc |-> "none", buckets |-> <<>>, empty_buckets |-> buckets_per_day]

RunMetrics ==
    /\ call.phase = "scanned" /\ call.fn = "write_metrics"
    /\ call' = [call EXCEPT !.phase = "done",
                            !.out = write_metrics(call.df, call.interval_minutes)]
    /\ UNCHANGED <<pipeVars, fq, cmp>>

\* ------------------------------ filters.py filter_by_time_range
\* formatters.py parse_time: "%H:%M:%S", "%H:%M" or "%H"; missing fields are 0,
\* and so is the microsecond of the time it returns
parse_time(str) ==
    << str[1], IF Len(str) >= 2 THEN str[2] ELSE 0, IF Len(str) >= 3 THEN str[3] ELSE 0, 0 >>

\* datetime.time's <=: hour, then minute, then second, then microsecond
TimeLe(a, b) ==
    \/ a[1] < b[1]
    \/ a[1] = b[1] /\ a[2] < b[2]
    \/ a[1] = b[1] /\ a[2] = b[2] /\ a[3] < b[3]
    \/ a[1] = b[1] /\ a[2] = b[2] /\ a[3] = b[3] /\ a[4] <= b[4]

\* a variant without the window that wraps midnight
filter_by_time_range_no_wrap(start, end, file_time) ==
    TimeLe(parse_time(start), file_time) /\ TimeLe(file_time, parse_time(end))

\* filters.py filter_by_time_range(start, end)(m), m.mtime.time() = file_time
filter_by_time_range(start, end, file_time) ==
    LET start_t == parse_time(start)
        end_t == parse_time(end)
    IN  IF TimeLe(start_t, end_t)
        THEN TimeLe(start_t, file_time) /\ TimeLe(file_time, end_t)
        ELSE TimeLe(start_t, file_time) \/ TimeLe(file_time, end_t)

RunTimeRange ==
    /\ call.phase = "asked" /\ call.fn = "filter_by_time_range"
    /\ call' = [call EXCEPT !.phase = "done",
                   !.out = filter_by_time_range(call.start, call.end, call.file_time)]
    /\ UNCHANGED <<pipeVars, fq, cmp>>

\* --------------------- main.py scan / scanner.py _enrich_batch
\* .replace("\\", "/")
SlashNormalize(str) == [i \in 1..Len(str) |-> IF str[i] = "\\" THEN "/" ELSE str[i]]

\* fnmatch.fnmatch(name, pat): "*" is any string, "?" any character
RECURSIVE fnmatch(_, _)
fnmatch(name, pat) ==
    IF pat = <<>> THEN name = <<>>
    ELSE IF Head(pat) = "*"
         THEN fnmatch(name, Tail(pat)) \/ (name # <<>> /\ fnmatch(Tail(name), pat))
         ELSE /\ name # <<>>
              /\ (Head(pat) = "?" \/ Head(pat) = Head(name))
              /\ fnmatch(Tail(name), Tail(pat))

\* re: a match of the regex at the start of the text; "." is any character,
\* "c*" any number of c, "$" the end of the text
RECURSIVE MatchHere(_, _)
RECURSIVE MatchStar(_, _, _)
MatchHere(regex, text) ==
    IF regex = <<>> THEN TRUE
    ELSE IF Len(regex) >= 2 /\ regex[2] = "*"
         THEN MatchStar(regex[1], SubSeq(regex, 3, Len(regex)), text)
         ELSE IF regex = <<"$">> THEN text = <<>>
         ELSE /\ text # <<>>
              /\ (regex[1] = "." \/ regex[1] = text[1])
              /\ MatchHere(Tail(regex), Tail(text))

MatchStar(c, regex, text) ==
    \/ MatchHere(regex, text)
    \/ /\ text # <<>>
       /\ (c = "." \/ c = text[1])
       /\ MatchStar(c, regex, Tail(text))

\* re.compile(pattern).search(text): a match anywhere, "^" only at the start
regex_search(pattern, text) ==
    IF pattern # <<>> /\ Head(pattern) = "^" THEN MatchHere(Tail(pattern), text)
    ELSE \E i \in 0..Len(text) : MatchHere(pattern, SubSeq(text, i + 1, Len(text)))

\* scanner.py 116-130: the path pattern check of _enrich_batch; no pattern is <<>>
path_pattern_check(path_pattern, pattern_type, rel) ==
    IF path_pattern = <<>> THEN TRUE
    ELSE IF pattern_type = "regex" THEN regex_search(path_pattern, SlashNormalize(rel))
    ELSE fnmatch(SlashNormalize(rel), path_pattern)

\* main.py 110-153: what scan hands scan_directories; the option not given is <<>>
scan_pattern_args(file_pattern, path_pattern) ==
    LET fp_type == file_pattern[1]
        pp == IF path_pattern # <<>> THEN path_pattern ELSE <<fp_type, <<>> >>
        pp_value == pp[2]
    IN  [pattern_type |-> fp_type, path_pattern |-> pp_value]

RunPathPattern ==
    /\ call.phase = "asked" /\ call.fn = "path_pattern"
    /\ LET args == scan_pattern_args(call.file_pattern, call.path_pattern)
       IN  call' = [call EXCEPT !.phase = "done",
                       !.out = path_pattern_check(args.path_pattern, args.pattern_type, call.rel)]
    /\ UNCHANGED <<pipeVars, fq, cmp>>

\* ------------- parsers/date_time.py, formatters.py parse_duration
RECURSIVE Flatten(_)
Flatten(ts) == IF ts = <<>> THEN <<>> ELSE Head(ts) \o Flatten(Tail(ts))

\* str.strip()
RECURSIVE Strip(_)
Strip(str) ==
    IF str = <<>> THEN <<>>
    ELSE IF Head(str) = " " THEN Strip(Tail(str))
    ELSE IF str[Len(str)] = " " THEN Strip(SubSeq(str, 1, Len(str) - 1))
    ELSE str

\* str.upper() on one character
UpperChar(c) ==
    CASE c = "m" -> "M" [] c = "s" -> "S" [] c = "d" -> "D" [] c = "y" -> "Y"
      [] c = "h" -> "H" [] OTHER -> c

upper(str) == [i \in 1..Len(str) |-> UpperChar(str[i])]

\* a match of ^(?:(\d+)U1)?(?:(\d+)U2)?...$ against s: every unit letter is
\* distinct, so each optional group matches exactly when s continues with
\* digits and that letter.  vals[u] is the group's int(), Unset without a match
RECURSIVE MatchUnits(_, _, _)
MatchUnits(s, units, vals) ==
    IF units = <<>> THEN [ok |-> s = <<>>, vals |-> vals]
    ELSE LET n == DigitRun(s)
         IN  IF n >= 1 /\ Len(s) > n /\ s[n + 1] = Head(units)
             THEN MatchUnits(SubSeq(s, n + 2, Len(s)), Tail(units),
                             [vals EXCEPT ![Head(units)] = IntOf(SubSeq(s, 1, n))])
             ELSE MatchUnits(s, Tail(units), vals)

NoParts(units) == [u \in Range(units) |-> Unset]

\* parts.get(unit, 0) / int(match.group(i) or 0)
PartOr0(vals, u) == IF vals[u] = Unset THEN 0 ELSE vals[u]

ValueError == [exc |-> "ValueError", val |-> Unset]

\* datetime.timedelta(days, hours, minutes, seconds), normalised as Python
\* keeps it: <<days, seconds>> with 0 <= seconds < 86400
timedelta(days, hours, minutes, seconds) ==
    LET secs == hours * 3600 + minutes * 60 + seconds
    IN  << days + secs \div 86400, secs % 86400 >>

\* lib/python_core/parsers/date_time.py parse_duration
parse_duration(duration_str) ==
    LET s == Strip(duration_str)
        m == MatchUnits(s, <<"Y", "M", "D", "H", "m", "s">>,
                        NoParts(<<"Y", "M", "D", "H", "m", "s">>))
    IN  IF s = <<>> \/ ~m.ok THEN ValueError
        ELSE LET days == PartOr0(m.vals, "Y") * 365 + PartOr0(m.vals, "M") * 30
                             + PartOr0(m.vals, "D")
             IN  [exc |-> "none",
                  val |-> timedelta(days, PartOr0(m.vals, "H"), PartOr0(m.vals, "m"),
                                    PartOr0(m.vals, "s"))]

\* formatters.py parse_duration
formatters_parse_duration(duration_str) ==
    LET s == upper(Strip(duration_str))
        m == MatchUnits(s, <<"D", "H", "M">>, NoParts(<<"D", "H", "M">>))
    IN  IF ~m.ok \/ \A u \in {"D", "H", "M"} : m.vals[u] = Unset THEN ValueError
        ELSE [exc |-> "none",
              val |-> timedelta(PartOr0(m.vals, "D"), PartOr0(m.vals, "H"),
                                PartOr0(m.vals, "M"), 0)]

\* scanner.py _duration_to_minutes, int(delta.total_seconds() // 60), with
\* "from formatters import parse_duration"
_duration_to_minutes(duration_str) ==
    LET td == formatters_parse_duration(duration_str)
    IN  IF td.exc # "none" THEN td
        ELSE [exc |-> "none", val |-> td.val[1] * 1440 + td.val[2] \div 60]

\* scanner.py _build_find_cmd, the date filter: the minutes of "-mmin -N";
\* an empty --lookback is falsy and adds no -mmin
lookback_minutes(lookback) ==
    IF lookback = <<>> THEN [exc |-> "none", val |-> Unset]
    ELSE _duration_to_minutes(lookback)

RunParseDuration ==
    /\ call.phase = "asked" /\ call.fn = "parse_duration"
    /\ call' = [call EXCEPT !.phase = "done", !.out = parse_duration(call.str)]
    /\ UNCHANGED <<pipeVars, fq, cmp>>

RunLookback ==
    /\ call.phase = "asked" /\ call.fn = "lookback"
    /\ call' = [call EXCEPT !.phase = "done", !.out = lookback_minutes(call.str)]
    /\ UNCHANGED <<pipeVars, fq, cmp>>

\* ------------------------------------- utils.py name_to_pattern
RunPattern ==
    /\ call.phase = "asked" /\ call.fn = "name_to_pattern"
    /\ call' = [call EXCEPT !.phase = "done",
                   !.keys = << name_to_pattern(call.names[1]),
                               name_to_pattern(call.names[2]) >>]
    /\ UNCHANGED <<pipeVars, fq, cmp>>

\* --------------- metadata.py extract_metadata_stat, the path fields
\* The file tree the records are made from.  A path is a sequence of
\* components, a component a sequence of characters.  /r and /r/sub are
\* directories, /l is a symbolic link to /r, /r/ln.t one to /r/real.d; one
\* file has a backslash in its name, which POSIX allows, and a.txt exists in
\* /r and in /r/sub.  The working directory is /.
TreeDirs == { << <<"r">> >>, << <<"r">>, <<"s", "u", "b">> >> }

TreeFiles == { << <<"r">>, <<"a", ".", "t", "x", "t">> >>,
               << <<"r">>, <<"r", "e", "a", "l", ".", "d">> >>,
               << <<"r">>, <<"x", "\\", "y", ".", "c">> >>,
               << <<"r">>, <<".", "h">> >>,
               << <<"r">>, <<"s", "u", "b">>, <<"b", ".", "t", ".", "g">> >>,
               << <<"r">>, <<"s", "u", "b">>, <<"n">> >>,
               << <<"r">>, <<"s", "u", "b">>, <<"a", ".", "t", "x", "t">> >> }

TreeLinks == { [from |-> << <<"l">> >>, to |-> << <<"r">> >>],
               [from |-> << <<"r">>, <<"l", "n", ".", "t">> >>,
                to |-> << <<"r">>, <<"r", "e", "a", "l", ".", "d">> >>] }

Cwd == <<>>

IsPrefix(p, q) == Len(p) <= Len(q) /\ SubSeq(q, 1, Len(p)) = p

\* Path.resolve() on absolute components: symbolic links are followed
RECURSIVE ResolveParts(_, _)
ResolveParts(done, rest) ==
    IF rest = <<>> THEN done
    ELSE LET nxt == Append(done, Head(rest))
         IN  IF \E l \in TreeLinks : l.from = nxt
             THEN ResolveParts((CHOOSE l \in TreeLinks : l.from = nxt).to, Tail(rest))
             ELSE ResolveParts(nxt, Tail(rest))

\* Path.resolve(): made absolute from the working directory, links followed
resolve(p) ==
    [abs |-> TRUE, parts |-> ResolveParts(<<>>, IF p.abs THEN p.parts ELSE Cwd \o p.parts)]

\* PurePath.name
PathName(p) == IF p.parts = <<>> THEN <<>> ELSE p.parts[Len(p.parts)]

\* PurePath.suffix: from the last dot of the name, unless the name starts or
\* ends with that dot
PathSuffix(p) ==
    LET name == PathName(p)
        dots == { i \in 1..Len(name) : name[i] = "." }
    IN  IF dots = {} THEN <<>>
        ELSE LET i == CHOOSE d \in dots : \A e \in dots : e <= d
             IN  IF 1 < i /\ i < Len(name) THEN SubSeq(name, i, Len(name)) ELSE <<>>

\* a variant that goes one directory further up
PathParentTwoUp(p) ==
    [p EXCEPT !.parts = IF Len(p.parts) < 2 THEN <<>> ELSE SubSeq(p.parts, 1, Len(p.parts) - 2)]

\* PurePath.parent
PathParent(p) ==
    [p EXCEPT !.parts = IF p.parts = <<>> THEN <<>> ELSE SubSeq(p.parts, 1, Len(p.parts) - 1)]

\* str(path): the components joined with "/"
RECURSIVE JoinParts(_)
JoinParts(parts) ==
    IF parts = <<>> THEN <<>>
    ELSE IF Len(parts) = 1 THEN Head(parts)
    ELSE Head(parts) \o <<"/">> \o JoinParts(Tail(parts))

PathStr(p) ==
    IF p.abs THEN <<"/">> \o JoinParts(p.parts)
    ELSE IF p.parts = <<>> THEN <<".">> ELSE JoinParts(p.parts)

\* PurePath.relative_to: by components, ValueError unless base is a prefix
relative_to(p, base) ==
    IF p.abs = base.abs /\ IsPrefix(base.parts, p.parts)
    THEN [exc |-> "none",
          val |-> [abs |-> FALSE, parts |-> SubSeq(p.parts, Len(base.parts) + 1, Len(p.parts))]]
    ELSE [exc |-> "ValueError", val |-> p]

\* Path.stat(): follows links, FileNotFoundError (an OSError) for no file
path_stat(p) ==
    IF resolve(p).parts \in TreeFiles \cup TreeDirs THEN "none" ELSE "OSError"

\* metadata.py extract_metadata_stat(file_path, base_dir, file_stat), the fields
\* made from the path
extract_paths(file_path, base_dir) ==
    LET rel == relative_to(file_path, base_dir)
    IN  [exc |-> rel.exc,
         rec |-> [name |-> PathName(file_path),
                  extension |-> PathSuffix(file_path),
                  full_path |-> PathStr(resolve(file_path)),
                  relative_path |-> PathStr(rel.val)]]

\* Path(target): a trailing slash is dropped
PathOf(target) == [abs |-> target.abs, parts |-> target.parts]

\* the output of "find target -type f": regular files below the target, each
\* printed with the target as typed in front; links are not followed, a
\* target that is itself a link is followed only with a trailing slash
find_output(target) ==
    LET t == PathOf(target)
        lexical == IF t.abs THEN t.parts ELSE Cwd \o t.parts
        top == resolve(t).parts
    IN  IF (\E l \in TreeLinks : l.from = lexical) /\ ~target.slash THEN {}
        ELSE { [abs |-> t.abs, parts |-> t.parts \o SubSeq(f, Len(top) + 1, Len(f))] :
                   f \in { g \in TreeFiles : IsPrefix(top, g) } }

\* scanner.py scan_directories, _run_find: one of the paths find printed, with
\* base_dir = Path(target).resolve()
FindOne ==
    /\ call.phase = "asked" /\ call.fn = "scan_directories"
    /\ \E p \in find_output(call.target) :
          call' = [call EXCEPT !.phase = "found", !.file_path = p,
                                !.base_dir = resolve(PathOf(call.target))]
    /\ UNCHANGED <<pipeVars, fq, cmp>>

\* scanner.py _enrich_file: base_dir = file_path.parent
ListOne ==
    /\ call.phase = "asked" /\ call.fn = "process_file_list"
    /\ call' = [call EXCEPT !.phase = "found", !.base_dir = PathParent(call.file_path)]
    /\ UNCHANGED <<pipeVars, fq, cmp>>

\* scanner.py _enrich_batch / _enrich_file: stat, then extract_metadata_stat;
\* an OSError of stat skips the file, a ValueError of relative_to is caught
\* by neither
ExtractOne ==
    /\ call.phase = "found"
    /\ call' = [call EXCEPT !.phase = "done",
                   !.out = IF path_stat(call.file_path) # "none"
                           THEN [exc |-> path_stat(call.file_path), rec |-> Idle]
                           ELSE extract_paths(call.file_path, call.base_dir)]
    /\ UNCHANGED <<pipeVars, fq, cmp>>

\* ------------------- scanner.py _enrich_batch, one candidate by steps
\* the steps of the loop body, in the order of the source
EnrichSteps == <<"path_pattern", "stat", "time_filter", "enrich", "hash">>

\* does the step run at all: the path pattern and the time filter only when
\* given, the hash only when wanted
StepRuns(step, args) ==
    CASE step = "path_pattern" -> args.path_pattern
      [] step = "time_filter" -> args.time_filter
      [] step = "hash" -> args.need_hash
      [] OTHER -> TRUE

\* a variant of the loop body in which no step ends the candidate
StepOutcomeNoSkip(step, args, c) == "next"

\* how the step ends for candidate c: "next" goes on to the following step,
\* "skip" is the continue of the loop, "raise" an exception nothing here catches.
\* A failed owner or MIME lookup leaves a placeholder (metadata.py _get_owner,
\* _detect_mime) and goes on; only a KeyError of Path.owner() gets out
StepOutcome(step, args, c) ==
    CASE step = "path_pattern" -> IF c.pp_match THEN "next" ELSE "skip"
      [] step = "stat" -> IF c.stat_ok THEN "next" ELSE "skip"
      [] step = "time_filter" -> IF c.tod_pass THEN "next" ELSE "skip"
      [] step = "enrich" -> IF c.owner = "KeyError" THEN "raise" ELSE "next"
      [] step = "hash" -> "next"

\* a step that is not asked for is passed over
PassStep ==
    /\ call.phase = "running" /\ call.at <= Len(EnrichSteps)
    /\ ~StepRuns(EnrichSteps[call.at], call.args)
    /\ call' = [call EXCEPT !.at = @ + 1]
    /\ UNCHANGED <<pipeVars, fq, cmp>>

\* the step at hand runs and goes on to the next one
RunStep ==
    /\ call.phase = "running" /\ call.at <= Len(EnrichSteps)
    /\ StepRuns(EnrichSteps[call.at], call.args)
    /\ StepOutcome(EnrichSteps[call.at], call.args, call.candidate) = "next"
    /\ call' = [call EXCEPT !.at = @ + 1, !.log = Append(@, EnrichSteps[call.at])]
    /\ UNCHANGED <<pipeVars, fq, cmp>>

\* the step at hand runs and ends the candidate: continue, or an exception
EndStep ==
    /\ call.phase = "running" /\ call.at <= Len(EnrichSteps)
    /\ StepRuns(EnrichSteps[call.at], call.args)
    /\ StepOutcome(EnrichSteps[call.at], call.args, call.candidate) # "next"
    /\ call' = [call EXCEPT !.phase = "done", !.log = Append(@, EnrichSteps[call.at]),
                   !.result = IF StepOutcome(EnrichSteps[call.at], call.args,
                                             call.candidate) = "skip"
                              THEN "skipped" ELSE "KeyError"]
    /\ UNCHANGED <<pipeVars, fq, cmp>>

\* results.append(metadata)
AppendResult ==
    /\ call.phase = "running" /\ call.at > Len(EnrichSteps)
    /\ call' = [call EXCEPT !.phase = "done", !.result = "appended"]
    /\ UNCHANGED <<pipeVars, fq, cmp>>

\* ------------- filters.py filter_unique.check, statement by statement (SpecUnique)
\* The scan with more than one worker and a unique filter, with check taken in
\* two steps, the test "key in seen" and seen.add(key), so that the pool
\* threads can run between them.  check is called by the generator's thread
\* only (scanner.py 336-339, 432-435, 451-454); _enrich_batch and
\* _enrich_file_batch, which the pool threads run, never get the filter.
NoCheck == [phase |-> "idle", key |-> "", unseen |-> FALSE, log |-> <<>>]

InitUnique ==
    /\ InitPipe
    /\ cfg.workers > 1 /\ cfg.unique # None
    /\ fq = Idle /\ cmp = Idle /\ call = NoCheck

\* the generator resumes and calls unique_filter(metadata): the key, then
\* "if not key or key in seen".  log: the keys found not to be in seen
CheckSeen ==
    /\ pc = "enrich" /\ cur # <<>> /\ call.phase = "idle"
    /\ LET k == key_of(cfg.unique, Head(cur))
       IN  IF k.exc # "none"
           THEN /\ pc' = "raising" /\ error' = k.exc
                /\ filterLog' = Append(filterLog, [id |-> Head(cur).id, md5 |-> Head(cur).md5,
                                                   result |-> "raised"])
                /\ UNCHANGED call
           ELSE /\ call' = [phase |-> "checked", key |-> k.val,
                            unseen |-> ~(k.val = "" \/ k.val \in seen),
                            log |-> IF k.val # "" /\ k.val \notin seen
                                    THEN Append(call.log, k.val) ELSE call.log]
                /\ UNCHANGED <<pc, error, filterLog>>
    /\ atYield' = FALSE
    /\ UNCHANGED <<cfg, fs, findState, all_found, batches, fut, consumed, cur, todo, seen,
                   emitted, hashed, lateStarts, fq, cmp>>

\* "return False", or seen.add(key), "return True" and the yield
InsertSeen ==
    /\ pc = "enrich" /\ cur # <<>> /\ call.phase = "checked"
    /\ seen' = IF call.unseen THEN seen_add(seen, call.key) ELSE seen
    /\ emitted' = IF call.unseen THEN Append(emitted, Head(cur)) ELSE emitted
    /\ filterLog' = Append(filterLog, [id |-> Head(cur).id, md5 |-> Head(cur).md5,
                                       result |-> IF call.unseen THEN "kept" ELSE "dropped"])
    /\ atYield' = call.unseen
    /\ cur' = Tail(cur)
    /\ call' = [call EXCEPT !.phase = "idle"]
    /\ UNCHANGED <<cfg, fs, pc, findState, all_found, batches, fut, consumed, todo, hashed,
                   error, lateStarts, fq, cmp>>

NextUnique ==
    \/ \E t \in TargetSet : FindStart(t)
    \/ \E t \in TargetSet : FindFinish(t)
    \/ \E t \in TargetSet : FindCollect(t)
    \/ StartEnrich
    \/ StartFileList
    \/ \E b \in BatchIds : WorkerStart(b)
    \/ \E b \in BatchIds : WorkerFinish(b)
    \/ \E b \in BatchIds : TakeFuture(b)
    \/ CheckSeen
    \/ InsertSeen
    \/ Finish
    \/ Close
    \/ ShutdownDone

SpecUnique == InitUnique /\ [][NextUnique]_vars

\* ------------------------------------- compare.py format_time_delta
\* f"{n:02d}": the decimal digits of n, padded with zeros to two characters
Format02d(n) ==
    LET RECURSIVE Dec(_)
        Dec(k) == IF k < 10 THEN <<ToString(k)>>
                  ELSE Dec(k \div 10) \o <<ToString(k % 10)>>
    IN  IF n < 10 THEN <<"0">> \o Dec(n) ELSE Dec(n)

\* a variant that always writes MM:SS, the hours left out
format_time_delta_no_hours(seconds) ==
    IF seconds = 0 THEN <<>>
    ELSE LET total == IF seconds < 0 THEN -seconds ELSE seconds
         IN  <<IF seconds > 0 THEN "+" ELSE "-">>
                 \o Format02d((total % 3600) \div 60) \o <<":">> \o Format02d(total % 60)

\* compare.py format_time_delta on a whole number of seconds: "" for 0, else
\* the sign, then HH:MM:SS when there is an hour and MM:SS when there is none
format_time_delta(seconds) ==
    IF seconds = 0 THEN <<>>
    ELSE LET sign == IF seconds > 0 THEN "+" ELSE "-"
             total == IF seconds < 0 THEN -seconds ELSE seconds
             h == total \div 3600
             remainder == total % 3600
             m == remainder \div 60
             s == remainder % 60
         IN  IF h > 0
             THEN <<sign>> \o Format02d(h) \o <<":">> \o Format02d(m) \o <<":">> \o Format02d(s)
             ELSE <<sign>> \o Format02d(m) \o <<":">> \o Format02d(s)

\* str.split(":")
RECURSIVE split(_)
split(str) ==
    IF \A i \in 1..Len(str) : str[i] # ":" THEN <<str>>
    ELSE LET at == CHOOSE i \in 1..Len(str) :
                      str[i] = ":" /\ \A j \in 1..(i - 1) : str[j] # ":"
         IN  <<SubSeq(str, 1, at - 1)>> \o split(SubSeq(str, at + 1, Len(str)))

\* compare.py write_delta_metrics, the body of "for val in
\* both_present["mtime_delta"]": the number appended to latency_seconds
latency_seconds(val) ==
    IF val = <<>> THEN 0
    ELSE LET sign == IF Head(val) = "+" THEN 1 ELSE -1
             parts == split(Tail(val))
             secs == IF Len(parts) = 3
                     THEN IntOf(parts[1]) * 3600 + IntOf(parts[2]) * 60 + IntOf(parts[3])
                     ELSE IF Len(parts) = 2
                          THEN IntOf(parts[1]) * 60 + IntOf(parts[2])
                          ELSE 0
         IN  sign * secs

\* compute_comparison writes the mtime delta of a row as text, and
\* write_delta_metrics reads the text back into latency_seconds
RunLatency ==
    /\ call.phase = "asked" /\ call.fn = "format_time_delta"
    /\ call' = [call EXCEPT !.phase = "done",
                   !.text = format_time_delta(call.seconds),
                   !.out = latency_seconds(format_time_delta(call.seconds))]
    /\ UNCHANGED <<pipeVars, fq, cmp>>

\* ------------------------------------- scanner.py, the batches of a list
\* scan_directories 257-265 / process_file_list 384-391 on one candidate list
RunBatches ==
    /\ call.phase = "asked" /\ call.fn = "batches"
    /\ call' = [call EXCEPT !.phase = "done", !.out = MakeBatches(call.list, call.workers)]
    /\ UNCHANGED <<pipeVars, fq, cmp>>

\* ------------------------------------------ the functions, one call at a time
\* One call of one function on arguments drawn from small sets, the pipeline
\* at rest: fq holds a call of find, cmp one of compute_comparison, call one
\* of the other functions (fn names it)
InitCalls ==
    /\ cfg = Idle /\ fs = Idle /\ pc = "idle"
    /\ findState = <<>> /\ all_found = <<>> /\ batches = <<>> /\ fut = <<>>
    /\ consumed = {} /\ cur = <<>> /\ todo = <<>> /\ seen = {} /\ emitted = <<>>
    /\ hashed = {} /\ atYield = FALSE /\ error = "none" /\ lateStarts = {}
    /\ filterLog = <<>>
    /\ \/ \* _build_find_cmd and find on one file: limits, the file's size and mtime
          /\ LET OrUnset(S) == S \cup {Unset}
             IN  fq \in [phase : {"asked"}, lookback : OrUnset({1}),
                         scan_start : OrUnset(0..MaxTime), scan_end : OrUnset(0..MaxTime),
                         min_size : OrUnset(0..MaxSize), max_size : OrUnset(0..MaxSize),
                         size : 0..MaxSize, mtime : 0..MaxTime,
                         cmd : {<<>>}, printed : {FALSE}]
          /\ cmp = Idle /\ call = Idle
       \/ \* compute_comparison: two inventories of at most MaxRows rows together.
          \* Two of the mtime stamps write the same instant; the md5 column holds
          \* a digest, the empty string of a record that was not hashed, None, or
          \* the NaN an empty cell of a CSV file is read back as
          /\ LET InvRows == [relative_path : Range(Paths),
                             mtime : {"2024-01-01", "2024-01-01 00:00:00", "2024-01-02"},
                             size_bytes : 1..2, md5 : {"", None, NaN, "h1", "h2"}]
             IN  \E n \in 0..MaxRows : \E k \in 0..n : \E rows \in [1..n -> InvRows] :
                    cmp = [phase |-> "loaded", source |-> SubSeq(rows, 1, k),
                           target |-> SubSeq(rows, k + 1, n), rows |-> <<>>]
          /\ fq = Idle /\ call = Idle
       \/ /\ fq = Idle /\ cmp = Idle
          /\ \/ \* delta: two results CSVs of at most MaxRows rows each
                LET CsvRows == [full_path : {"/s/a.parq", "/s/b.parq", "/s/c.parq"},
                                size_bytes : 1..2]
                IN  \E n \in 0..MaxRows, k \in 0..MaxRows :
                       \E S \in [1..n -> CsvRows], T \in [1..k -> CsvRows] :
                          call = [fn |-> "delta", phase |-> "read", source |-> S,
                                  target |-> T, out |-> <<>>]
             \/ \* write_metrics: --metrics-interval (the default, divisors of a day
                \* and others) and at most MaxRows records by their mtime (hour, minute)
                LET ClockTimes == { <<0, 0>>, <<0, 29>>, <<0, 30>>, <<11, 59>>, <<12, 0>>,
                                    <<16, 40>>, <<23, 59>> }
                IN  \E n \in 0..MaxRows : \E df \in [1..n -> ClockTimes] :
                       \E interval \in {0, 30, 60, 720, 1000, 1440, 2000} :
                          call = [fn |-> "write_metrics", phase |-> "scanned", df |-> df,
                                  interval_minutes |-> interval, out |-> <<>>]
             \/ \* filter_by_time_range: --time-start and --time-end as the numbers
                \* of HH[:MM[:SS]], and m.mtime.time() as (hour, minute, second,
                \* microsecond): mtime is datetime.fromtimestamp(st_mtime)
                \E start, end \in { <<22>>, <<22, 0>>, <<2, 0>>, <<2, 0, 0>>, <<9>>, <<17, 0>>,
                                    <<0, 0, 0>>, <<23, 59, 59>>, <<12, 0>> } :
                   \E t \in { <<23, 30, 0, 0>>, <<1, 15, 0, 0>>, <<12, 0, 0, 0>>,
                              <<22, 0, 0, 0>>, <<2, 0, 0, 0>>, <<2, 0, 0, 1>>, <<2, 0, 1, 0>>,
                              <<21, 59, 59, 999999>>, <<0, 0, 0, 0>>, <<0, 0, 0, 1>>,
                              <<23, 59, 58, 999999>>, <<23, 59, 59, 0>>,
                              <<23, 59, 59, 1>>, <<23, 59, 59, 999999>> } :
                      call = [fn |-> "filter_by_time_range", phase |-> "asked",
                              start |-> start, end |-> end, file_time |-> t, out |-> FALSE]
             \/ \* scan's pattern options: the type of --file-pattern, a --path-pattern
                \* (each value a valid glob and a valid regex) or none, and the
                \* relative path of a candidate
                \E fpt \in {"glob", "regex"} :
                   \E pp \in {<<>>} \cup ({"glob", "regex"} \X
                                 { <<"d", "/", "*">>, <<"^", "d", "/">>, <<"a", ".", "p">>,
                                   <<".", "*", "p", "$">>, <<"d", "/", "a", ".", "p">> }) :
                      \E rel \in { <<"d", "/", "a", ".", "p">>, <<"r", "/", "a", ".", "p">>,
                                   <<"a", ".", "p">>, <<"d", "/", "a", "x", "p">>,
                                   <<"a", "x", "p">>, <<"d", "\\", "a", ".", "p">> } :
                         call = [fn |-> "path_pattern", phase |-> "asked",
                                 file_pattern |-> <<fpt, <<"*">> >>, path_pattern |-> pp,
                                 rel |-> rel, out |-> FALSE]
             \/ \* the two duration parsers: strings of at most MaxTokens pieces
                \E fn \in {"parse_duration", "lookback"} :
                   \E n \in 0..MaxTokens :
                      \E ts \in [1..n -> { <<"1", "Y">>, <<"6", "M">>, <<"1", "D">>,
                                           <<"1", "2", "H">>, <<"3", "0", "m">>,
                                           <<"4", "5", "s">>, <<"1", "d">>, <<"3">>, <<" ">> }] :
                         call = [fn |-> fn, phase |-> "asked", str |-> Flatten(ts),
                                 out |-> [exc |-> "none", val |-> Unset]]
             \/ \* name_to_pattern on the names of two records, each of at most
                \* MaxChunks pieces: letters, punctuation, the text of a digit-run
                \* key, short digit runs, 8-digit runs that are dates or not
                LET NameChunks == { <<"a">>, <<".">>, <<"\\", "d", "{">>, <<"7">>,
                                    <<"2", "0", "2", "5", "0", "6", "0", "1">>,
                                    <<"1", "9", "9", "9", "1", "2", "3", "1">>,
                                    <<"2", "0", "2", "5", "1", "3", "0", "1">> }
                IN  \E n1 \in 0..MaxChunks, n2 \in 0..MaxChunks :
                       \E c1 \in [1..n1 -> NameChunks], c2 \in [1..n2 -> NameChunks] :
                          call = [fn |-> "name_to_pattern", phase |-> "asked",
                                  names |-> << Flatten(c1), Flatten(c2) >>,
                                  keys |-> << "", "" >>]
             \/ \* scan_directories on a target as typed: absolute, relative, through
                \* the link with and without a trailing slash
                \E t \in { [abs |-> TRUE, parts |-> << <<"r">> >>, slash |-> FALSE],
                           [abs |-> FALSE, parts |-> << <<"r">> >>, slash |-> FALSE],
                           [abs |-> TRUE, parts |-> << <<"r">>, <<"s", "u", "b">> >>,
                            slash |-> FALSE],
                           [abs |-> TRUE, parts |-> << <<"l">> >>, slash |-> TRUE],
                           [abs |-> TRUE, parts |-> << <<"l">> >>, slash |-> FALSE],
                           [abs |-> TRUE, parts |-> << <<"l">>, <<"s", "u", "b">> >>,
                            slash |-> FALSE] } :
                   call = [fn |-> "scan_directories", phase |-> "asked", target |-> t,
                           file_path |-> PathOf(t), base_dir |-> PathOf(t),
                           out |-> [exc |-> "none", rec |-> Idle]]
             \/ \* process_file_list on one listed path: every file, the link to a
                \* file and a file that is not there, each absolute, relative and
                \* through the directory link
                \E b \in { [abs |-> TRUE, parts |-> << <<"r">> >>],
                           [abs |-> FALSE, parts |-> << <<"r">> >>],
                           [abs |-> TRUE, parts |-> << <<"l">> >>] } :
                   \E f \in TreeFiles \cup { l.from : l \in { k \in TreeLinks : Len(k.from) > 1 } }
                                \cup { << <<"r">>, <<"n", "o">> >> } :
                      LET p == [abs |-> b.abs, parts |-> b.parts \o SubSeq(f, 2, Len(f))]
                      IN  call = [fn |-> "process_file_list", phase |-> "asked", target |-> p,
                                  file_path |-> p, base_dir |-> p,
                                  out |-> [exc |-> "none", rec |-> Idle]]
             \/ \* the batches of a candidate list: the candidates found or listed
                \* (never none: scan_directories returns early, the commands refuse
                \* an empty list) and the workers value
                \E n \in 1..MaxCandidates, w \in 1..MaxPool :
                   call = [fn |-> "batches", phase |-> "asked", list |-> [i \in 1..n |-> i],
                           workers |-> w, out |-> <<>>]
             \/ \* format_time_delta and its reading back: the mtime delta of a row,
                \* in whole seconds (the mtime columns hold whole seconds)
                \E d \in (-MaxDelta..MaxDelta)
                            \cup {-360000, -86400, -86399, 86399, 86400, 359999, 360000} :
                   call = [fn |-> "format_time_delta", phase |-> "asked", seconds |-> d,
                           text |-> <<>>, out |-> 0]
             \/ \* _enrich_batch on one candidate: what the file system and the
                \* filters will answer for it, and whether there is a path pattern,
                \* a time filter, and the hash is wanted
                \E c \in [pp_match : BOOLEAN, stat_ok : BOOLEAN, tod_pass : BOOLEAN,
                          owner : {"ok", "OSError", "KeyError"}, mime : {"ok", "OSError"},
                          read_ok : BOOLEAN] :
                   \E a \in [path_pattern : BOOLEAN, time_filter : BOOLEAN,
                             need_hash : BOOLEAN] :
                      call = [fn |-> "_enrich_batch", phase |-> "running", at |-> 1,
                              candidate |-> c, args |-> a, log |-> <<>>, result |-> "none"]

NextCalls ==
    \/ RunFindOnFile
    \/ Compare
    \/ RunDelta
    \/ RunMetrics
    \/ RunTimeRange
    \/ RunPathPattern
    \/ RunParseDuration
    \/ RunLookback
    \/ RunPattern
    \/ RunLatency
    \/ RunBatches
    \/ FindOne
    \/ ListOne
    \/ ExtractOne
    \/ PassStep
    \/ RunStep
    \/ EndStep
    \/ AppendResult

SpecCalls == InitCalls /\ [][NextCalls]_vars

\* ---------------------------------------------- the run with one worker
\* what phase 1 collects when the targets are visited in order (232-238)
SerialFound ==
    LET RECURSIVE From(_)
        From(i) == IF i > Len(Targets) THEN <<>>
                   ELSE (IF findState[Targets[i]] = "ok" THEN FindOutput(Targets[i])
                         ELSE <<>>) \o From(i + 1)
    IN  From(1)

\* the loop of 324-327 over a list of records; an exception of the filter
\* ends the generator with what was yielded before
RECURSIVE YieldFrom(_, _, _)
YieldFrom(list, seenSet, out) ==
    IF list = <<>> THEN out
    ELSE IF cfg.unique = None THEN YieldFrom(Tail(list), seenSet, Append(out, Head(list)))
    ELSE LET r == check(cfg.unique, Head(list), seenSet)
         IN  IF r.exc # "none" THEN out
             ELSE YieldFrom(Tail(list), r.seen,
                            IF r.keep THEN Append(out, Head(list)) ELSE out)

\* the records scan_directories yields with workers=1 for the same find results:
\* _enrich_batch runs over the whole list before the first yield
SerialEmitted ==
    LET r == _enrich_batch(SerialFound)
    IN  IF r.exc # "none" THEN <<>> ELSE YieldFrom(r.results, {}, <<>>)

\* ------------------------------------------------------------------ claims
\* C1: in either dedup mode the first record offered with a key not seen before
\* passes, every later record with that key is dropped, and no two emitted
\* records share a key; the key is the content digest in hash mode and the
\* pattern of the name in name-pattern mode
C1_FirstPassesLaterDropped ==
    LET KeyOf(name, md5) == IF cfg.unique = "hash" THEN md5 ELSE name_to_pattern(name)
        LogKey(e) == KeyOf(KindOf(e.id).name, e.md5)
    IN  cfg.unique # None =>
        /\ \A i \in 1..Len(filterLog) :
              LogKey(filterLog[i]) # "" =>
                  ((filterLog[i].result = "kept")
                      <=> (\A j \in 1..(i - 1) : LogKey(filterLog[j]) # LogKey(filterLog[i])))
        /\ \A i, j \in 1..Len(filterLog) :
              (LogKey(filterLog[i]) # "" /\ LogKey(filterLog[i]) = LogKey(filterLog[j]) /\ i < j)
                  => filterLog[j].result = "dropped"
        /\ \A i, j \in 1..Len(emitted) :
              i # j => KeyOf(emitted[i].name, emitted[i].md5)
                           # KeyOf(emitted[j].name, emitted[j].md5)

\* C2: a complete run of scan_directories with any number of workers yields the
\* same multiset of records as the run with one worker over the same find results
C2_SameMultisetAsOneWorker ==
    (cfg.mode = "dirs" /\ pc \in {"done", "raised"})
        => SeqToBag(emitted) = SeqToBag(SerialEmitted)

\* C4: nothing per-file is fatal in scan_directories: every batch a worker has
\* run ended without an exception, and no per-file exception leaves the generator
C4_NothingPerFileIsFatal ==
    cfg.mode = "dirs" =>
    /\ \A b \in BatchIds : fut[b] = "done" => _enrich_batch(batches[b]).exc = "none"
    /\ error \notin {"ValueError", "KeyError", "PermissionError", "OSError"}

\* C5: a find that times out, is missing or fails with an OS error gives its
\* target no candidate and raises nothing; the other targets' files are all
\* collected, and, absent a unique filter, a completed scan has yielded every
\* record their enrichment produced
C5_FailedFindSkipsTarget ==
    /\ error # "FindError"
    /\ \A f \in Files :
          /\ findState[TargetOf(f)] = "failed" => f \notin Range(all_found)
          /\ (cfg.mode = "dirs" /\ findState[TargetOf(f)] = "ok") => f \in Range(all_found)
    /\ (cfg.mode = "dirs" /\ pc = "done" /\ cfg.unique = None)
          => {emitted[i].id : i \in 1..Len(emitted)}
                 = {f \in Files : findState[TargetOf(f)] = "ok" /\ PerFile(f).out = "append"}

C5_Witness ==
    /\ pc = "done" /\ ~SerialFind /\ cfg.unique = None
    /\ \E t \in TargetSet : findState[t] = "failed"
    /\ emitted # <<>>

\* C6: once the consumer has closed the generator, no batch that had not
\* started is started
C6_NoBatchStartsAfterClose == lateStarts = {}

\* C7: with --off-hash, or ENABLE_HASH one of false/0/no in any case,
\* compute_hash runs on no file and every emitted record has an empty digest
C7_NoHashUnlessNeeded ==
    (cfg.off_hash \/ ~enable_hash(cfg.ENABLE_HASH))
        => /\ hashed = {}
           /\ \A i \in 1..Len(emitted) : emitted[i].md5 = ""

C7_Witness ==
    /\ cfg.off_hash /\ cfg.ENABLE_HASH = <<"t", "r", "u", "e">>
    /\ pc = "done" /\ Len(emitted) >= 2

\* C8: in hash mode the unique filter rejects every record that reaches it with
\* an empty digest: it returns false for it and the scan goes on
C8_EmptyDigestRejected ==
    cfg.unique = "hash" =>
        \A i \in 1..Len(filterLog) :
            filterLog[i].md5 = "" => filterLog[i].result = "dropped"

\* C3: find keeps a file exactly when filter_by_size_range and, with a date
\* range instead of a lookback, filter_by_date_range keep it
C3_FindAgreesWithFilters ==
    (fq.phase = "ran" /\ fq.lookback = Unset)
        => (fq.printed <=>
               /\ filter_by_size_range(fq.min_size, fq.max_size, fq.size)
               /\ filter_by_date_range(fq.scan_start, fq.scan_end, fq.mtime))

\* C9: the comparison has one row for each relative_path of the union of the
\* two inventories, whatever paths an inventory repeats
C9_OneRowPerPath ==
    LET PathsOf(inventory) == { inventory[i].relative_path : i \in 1..Len(inventory) }
    IN  cmp.phase = "compared"
            => Len(cmp.rows) = Cardinality(PathsOf(cmp.source) \cup PathsOf(cmp.target))

\* C10: a row is missing_in_target when only the source has the path,
\* missing_in_source when only the target has it, differ when size or mtime
\* differs or both digests are non-empty and unequal, and match otherwise,
\* an empty or absent digest on either side included
C10_StatusClassification ==
    LET EmptyDigest(d) == d \in {"", None, NaN}
        Classified(src, tgt) ==
            IF \/ src.size_bytes # tgt.size_bytes
               \/ to_datetime(src.mtime) # to_datetime(tgt.mtime)
               \/ (~EmptyDigest(src.md5) /\ ~EmptyDigest(tgt.md5) /\ src.md5 # tgt.md5)
            THEN "differ" ELSE "match"
    IN  cmp.phase = "compared" =>
        \A i \in 1..Len(cmp.rows) :
            LET S == RowsOf(cmp.source, cmp.rows[i].relative_path)
                T == RowsOf(cmp.target, cmp.rows[i].relative_path)
            IN  IF T = <<>> THEN cmp.rows[i].status = "missing_in_target"
                ELSE IF S = <<>> THEN cmp.rows[i].status = "missing_in_source"
                ELSE \E a \in 1..Len(S), b \in 1..Len(T) :
                        /\ cmp.rows[i].source_size = S[a].size_bytes
                        /\ cmp.rows[i].target_size = T[b].size_bytes
                        /\ cmp.rows[i].status = Classified(S[a], T[b])

\* C11: the path-set diff has a "+" row for exactly the rows of the target whose
\* full_path is not in the source, a "-" row for exactly the rows of the source
\* whose full_path is not in the target, and no row for a path in both; so the
\* diff of an inventory with itself is empty and the diff of the empty inventory
\* with T has Len(T) additions and no removal
C11_PathSetDiff ==
    (call.phase = "done" /\ call.fn = "delta") =>
        LET S == call.source
            T == call.target
            Count(seq, P(_)) == Cardinality({i \in 1..Len(seq) : P(seq[i])})
            InS(path) == \E i \in 1..Len(S) : S[i].full_path = path
            InT(path) == \E i \in 1..Len(T) : T[i].full_path = path
            Plus(r) == Count(call.out, LAMBDA o : o.change = "+" /\ o.full_path = r.full_path
                                                   /\ o.size_bytes = r.size_bytes)
            Minus(r) == Count(call.out, LAMBDA o : o.change = "-" /\ o.full_path = r.full_path
                                                    /\ o.size_bytes = r.size_bytes)
        IN  /\ \A r \in Range(S) \cup Range(T) :
                /\ Plus(r) = IF InS(r.full_path) THEN 0 ELSE Count(T, LAMBDA t : t = r)
                /\ Minus(r) = IF InT(r.full_path) THEN 0 ELSE Count(S, LAMBDA t : t = r)
            /\ \A i \in 1..Len(call.out) : call.out[i].change \in {"+", "-"}
            /\ S = T => call.out = <<>>
            /\ S = <<>> => /\ Len(call.out) = Len(T)
                           /\ \A i \in 1..Len(call.out) : call.out[i].change = "+"

C11_Witness ==
    /\ call.phase = "done" /\ call.fn = "delta" /\ Len(call.source) = 2 /\ Len(call.target) = 2
    /\ call.source[1].full_path = call.target[1].full_path
    /\ call.source[1].size_bytes # call.target[1].size_bytes
    /\ \E i, j \in 1..Len(call.out) : call.out[i].change = "+" /\ call.out[j].change = "-"

\* C12: for every interval, write_metrics produces (24*60)/interval buckets with
\* half-open ranges that cover the day, so every record is counted in exactly
\* one bucket, the counts sum to the number of records, and empty_buckets is
\* the number of buckets of the array with count 0
C12_BucketsPartitionTheDay ==
    (call.phase = "done" /\ call.fn = "write_metrics" /\ call.interval_minutes > 0) =>
        LET B == call.out.buckets
            RECURSIVE Sum(_)
            Sum(i) == IF i = 0 THEN 0 ELSE B[i].count + Sum(i - 1)
        IN  /\ call.out.exc = "none"
            /\ Len(B) * call.interval_minutes = 24 * 60
            /\ \A r \in 1..Len(call.df) :
                  Cardinality({i \in 1..Len(B) :
                      /\ B[i].start_min <= time_of_day(call.df[r])
                      /\ time_of_day(call.df[r]) < B[i].end_min}) = 1
            /\ Sum(Len(B)) = Len(call.df)
            /\ call.out.empty_buckets = Cardinality({i \in 1..Len(B) : B[i].count = 0})

\* C13: filter_by_time_range(start, end) accepts a record iff its time of day t
\* has start <= t <= end when start <= end, and t >= start or t <= end when
\* start > end; the window 22:00-02:00 accepts 23:30 and 01:15 and rejects 12:00
C13_TimeOfDayWindow ==
    (call.phase = "done" /\ call.fn = "filter_by_time_range") =>
        LET \* a time of day as (seconds, microseconds) since midnight
            Secs(str) == << str[1] * 3600 + (IF Len(str) >= 2 THEN str[2] * 60 ELSE 0)
                                + (IF Len(str) >= 3 THEN str[3] ELSE 0),
                            IF Len(str) >= 4 THEN str[4] ELSE 0 >>
            Le(a, b) == a[1] < b[1] \/ (a[1] = b[1] /\ a[2] <= b[2])
            start == Secs(call.start)
            end == Secs(call.end)
            t == Secs(call.file_time)
        IN  /\ call.out <=> IF Le(start, end) THEN Le(start, t) /\ Le(t, end)
                            ELSE Le(start, t) \/ Le(t, end)
            /\ (call.start = <<22, 0>> /\ call.end = <<2, 0>>) =>
                  /\ call.file_time = <<23, 30, 0, 0>> => call.out
                  /\ call.file_time = <<1, 15, 0, 0>> => call.out
                  /\ call.file_time = <<12, 0, 0, 0>> => ~call.out

C13_Witness ==
    /\ call.phase = "done" /\ call.fn = "filter_by_time_range" /\ call.start = <<22, 0>> /\ call.end = <<2, 0>>
    /\ call.file_time = <<1, 15, 0, 0>> /\ call.out

\* C14: a path pattern is matched against the slash-normalized relative path
\* with the matcher of its own type (glob: glob match, regex: regex search),
\* whatever the type of the file-name pattern, and a candidate is kept only if
\* it matches
C14_PathPatternOwnType ==
    (call.phase = "done" /\ call.fn = "path_pattern" /\ call.path_pattern # <<>>) =>
        (call.out <=>
            IF call.path_pattern[1] = "regex"
            THEN regex_search(call.path_pattern[2], SlashNormalize(call.rel))
            ELSE fnmatch(SlashNormalize(call.rel), call.path_pattern[2]))

\* C15: every duration the tool parses, the --lookback value that becomes the
\* minutes of find's -mmin included, follows the case-sensitive grammar
\* Y = 365 days, M = 30 days, D = day, H = hour, m = minute, s = second, units
\* in that order, none twice, at least one: a string of the grammar gives the
\* sum of its units (1D12H30m = 36:30:00, 1Y6M = 545 days), any other string
\* ("30") is rejected.
C15_DurationGrammar ==
    LET Units == {"Y", "M", "D", "H", "m", "s"}
        Rank(u) == CASE u = "Y" -> 1 [] u = "M" -> 2 [] u = "D" -> 3
                     [] u = "H" -> 4 [] u = "m" -> 5 [] u = "s" -> 6
        s == Strip(call.str)
        At(u) == { i \in 1..Len(s) : s[i] = u }
        UnitAt == { i \in 1..Len(s) : s[i] \in Units }
        InGrammar ==
            /\ s # <<>>
            /\ s[Len(s)] \in Units
            /\ \A i \in 1..Len(s) : s[i] \in Units \cup Digits
            /\ \A i \in UnitAt : i > 1 /\ s[i - 1] \in Digits
            /\ \A i, j \in UnitAt : i < j => Rank(s[i]) < Rank(s[j])
        \* the number in front of the unit at position i
        Number(i) ==
            LET before == {0} \cup { j \in UnitAt : j < i }
                from == 1 + CHOOSE j \in before : \A k \in before : k <= j
            IN  IntOf(SubSeq(s, from, i - 1))
        Amount(u) == IF At(u) = {} THEN 0 ELSE Number(CHOOSE i \in At(u) : TRUE)
        \* the sum of the units, as whole days and seconds of the last day
        Secs == Amount("H") * 3600 + Amount("m") * 60 + Amount("s")
        Days == Amount("Y") * 365 + Amount("M") * 30 + Amount("D") + Secs \div 86400
        Total == << Days, Secs % 86400 >>
        Minutes == Days * 1440 + (Secs % 86400) \div 60
    IN  /\ parse_duration(<<"1", "D", "1", "2", "H", "3", "0", "m">>).val
               = << 1, 12 * 3600 + 30 * 60 >>
        /\ parse_duration(<<"1", "Y", "6", "M">>).val = << 545, 0 >>
        /\ parse_duration(<<"3", "0">>).exc = "ValueError"
        /\ (call.phase = "done" /\ call.fn = "parse_duration") =>
               IF InGrammar THEN call.out = [exc |-> "none", val |-> Total]
               ELSE call.out.exc = "ValueError"
        /\ (call.phase = "done" /\ call.fn = "lookback" /\ call.str # <<>>) =>
               IF InGrammar THEN call.out = [exc |-> "none", val |-> Minutes]
               ELSE call.out.exc = "ValueError"

C17_RecordPathFields ==
    LET r == call.out.rec
        EndsWith(str, tail) ==
            Len(tail) <= Len(str) /\ SubSeq(str, Len(str) - Len(tail) + 1, Len(str)) = tail
        Dots(name) == { i \in 1..Len(name) : name[i] = "." }
        LastDot(name) == CHOOSE d \in Dots(name) : \A e \in Dots(name) : e <= d
        SuffixOf(name) ==
            IF Dots(name) = {} \/ LastDot(name) = 1 \/ LastDot(name) = Len(name) THEN <<>>
            ELSE SubSeq(name, LastDot(name), Len(name))
    IN  (/\ call.phase = "done"
         /\ call.fn \in {"scan_directories", "process_file_list"}
         /\ call.out.exc = "none") =>
            /\ r.extension = SuffixOf(r.name)
            /\ \A i \in 1..Len(r.relative_path) : r.relative_path[i] # "\\"
            /\ r.relative_path # <<>> => r.relative_path[1] # "/"
            /\ EndsWith(r.full_path, r.name)

C19_CheckAndInsertAtomic ==
    /\ \A i, j \in 1..Len(call.log) : i # j => call.log[i] # call.log[j]
    /\ (call.phase = "checked" /\ call.unseen) => call.key \notin seen
    /\ \A i, j \in 1..Len(emitted) :
          (i # j /\ cfg.unique = "namepattern")
              => name_to_pattern(emitted[i].name) # name_to_pattern(emitted[j].name)

\* between the check and the insert, with a pool thread at work: the record
\* being checked has the key of an earlier one and found it in the set
C19_Witness ==
    /\ call.phase = "checked"
    /\ ~call.unseen
    /\ call.key \in seen
    /\ Running # {}

\* C20: at every moment of a scan with workers = W >= 1, the find invocations
\* being executed and the enrichment batches being executed are together at
\* most W.
C20_AtMostWInFlight ==
    Cardinality(FindRunning) + Cardinality(Running) <= cfg.workers

\* the pool is full and a batch waits for a free thread
C20_Witness ==
    /\ pc = "enrich"
    /\ Cardinality(Running) = cfg.workers
    /\ Queued # {}

\* C21: with W >= 2 workers a non-empty candidate list is sliced into batches
\* of equal size, at most W of them, so that no batch waits in the executor's
\* queue while every pool thread is busy with another batch.
C21_OneBatchPerWorker ==
    (cfg.workers >= 2 /\ batches # <<>>) =>
        /\ \A i, j \in BatchIds : Len(batches[i]) = Len(batches[j])
        /\ Len(batches) <= cfg.workers
        /\ ~(Queued # {} /\ Cardinality(Running) = cfg.workers)

\* C23: once a scan without a unique filter has ended, by returning or by an
\* exception, a candidate whose stat failed has no record, and every candidate
\* whose owner lookup, MIME sniff or hash read failed has its record emitted,
\* with the owner "N/A", the MIME type "unknown", or the digest "".
C23_EnrichFailureKeepsTheRecord ==
    (pc \in {"done", "raised"} /\ cfg.unique = None) =>
        \A i \in 1..Len(all_found) :
           LET f == all_found[i]
               recs == {emitted[j] : j \in {k \in 1..Len(emitted) : emitted[k].id = f}}
           IN  /\ fs.fate[f] = "stat_err" => recs = {}
               /\ fs.fate[f] \in {"owner_oserror", "owner_keyerror"} =>
                      recs # {} /\ \A m \in recs : m.owner = "N/A"
               /\ fs.fate[f] = "mime_oserror" =>
                      recs # {} /\ \A m \in recs : m.mime_type = "unknown"
               /\ fs.fate[f] = "hash_err" =>
                      recs # {} /\ \A m \in recs : m.md5 = ""

C30_TimeDeltaRoundTrip ==
    (call.phase = "done" /\ call.fn = "format_time_delta") => call.out = call.seconds

\* a negative delta of an hour or more, written as -HH:MM:SS, was read back
C30_Witness ==
    /\ call.phase = "done" /\ call.fn = "format_time_delta"
    /\ call.seconds <= -3600
    /\ Len(call.text) = 9 /\ Head(call.text) = "-"
    /\ call.out = call.seconds

\* C28: the default window, --day-start 00:00:00 and --day-end 23:59:59,
\* accepts every file, whatever the microsecond of its mtime.
C28_DefaultWindowAcceptsAll ==
    (call.phase = "done" /\ call.fn = "filter_by_time_range"
        /\ call.start = <<0, 0, 0>> /\ call.end = <<23, 59, 59>>) => call.out

\* C29: every record process_file_list makes has relative_path = its file
\* name, the base directory being the file's own parent; so a listed file and
\* any other file of the same base name in another directory get the same
\* relative_path, the join key of compare.
C29_ListedRelativePathIsName ==
    (/\ call.phase = "done" /\ call.fn = "process_file_list"
     /\ call.out.exc = "none") =>
        LET r == call.out.rec
        IN  /\ r.relative_path = r.name
            /\ \A g \in TreeFiles :
                  LET q == [abs |-> TRUE, parts |-> g]
                  IN  PathName(q) = r.name =>
                         extract_paths(q, PathParent(q)).rec.relative_path = r.relative_path

\* the record of sub/a.txt, listed below a prefix that holds another a.txt
C29_Witness ==
    /\ call.phase = "done" /\ call.fn = "process_file_list" /\ call.out.exc = "none"
    /\ Len(call.file_path.parts) = 3
    /\ call.out.rec.relative_path = <<"a", ".", "t", "x", "t">>
    /\ \E g \in TreeFiles :
          Len(g) = 2 /\ g[Len(g)] = call.out.rec.name

C26_TwoPhases ==
    (cfg # Idle /\ cfg.mode = "dirs") =>
        /\ ((\E b \in BatchIds : fut[b] \in {"running", "done"}) \/ cur # <<>> \/ emitted # <<>>)
              => \A t \in TargetSet : findState[t] \in {"ok", "failed"}
        /\ \A i \in 1..Len(emitted) :
              \E b \in BatchIds :
                 /\ \E k \in 1..Len(batches[b]) : batches[b][k] = emitted[i].id
                 /\ fut[b] = "done"

\* two workers: a record of one batch was emitted while another batch is
\* still being processed
C26_Witness ==
    /\ cfg # Idle /\ cfg.mode = "dirs" /\ cfg.workers = 2
    /\ emitted # <<>>
    /\ Running # {}

\* C25: with a unique filter, once the scan has ended the set of dedup keys of
\* the emitted records is the set of non-empty keys of the candidates that
\* passed the path pattern, stat and the time-of-day filter; the candidate list
\* and the parameters fix that set, the worker count and the completion order
\* of the batches do not enter it.
C25_KeySetIsFixed ==
    LET Key(name, digest) == IF cfg.unique = "hash" THEN digest ELSE name_to_pattern(name)
        Survivors == { all_found[i] : i \in { k \in 1..Len(all_found) :
                          fs.fate[all_found[k]] \notin {"pp_reject", "stat_err", "tod_reject"} } }
        Digest(f) == IF NeedHash /\ fs.fate[f] # "hash_err"
                     THEN "md5:" \o KindOf(f).content ELSE ""
    IN  (cfg # Idle /\ cfg.unique # None /\ pc \in {"done", "raised"}) =>
            { Key(emitted[i].name, emitted[i].md5) : i \in 1..Len(emitted) }
                = { Key(KindOf(f).name, Digest(f)) : f \in Survivors } \ {""}

====
